---- MODULE Spec2Model ----
(***************************************************************************)
(* Choice extraction of princess (src/src/princess/parser.py).             *)
(*                                                                         *)
(* A cleaned script is a sequence of lines, each with a kind, an           *)
(* indentation depth and a text class.  grammar.parse accepts the scripts  *)
(* of the Lark grammar; ChoicesTransformer then reduces the parse tree     *)
(* bottom-up, one callback per rule, and its start callback attaches the   *)
(* label and the preceding dialogue to every choice.                       *)
(***************************************************************************)
EXTENDS Integers, Sequences, FiniteSets, TLC

\* The state of grammar.parse and ChoicesTransformer.
VARIABLES script, todo, labels, dialogues, menus, heap, pc, mi, ci,
          choices, result, mutated

\* The state of the tree walk extract_choices.
VARIABLES ast, at, frames, records, wpc

\* The state of RenpyScriptGraph (choices.py).
VARIABLES glines, gi, current_label, label_stack, current_node_id,
          graph_choices, current_voice, menu_stack, branch_stack,
          last_dialogue_node, graph_nodes, graph_edges, contexts, gpc

\* The state of clean_script followed by grammar.parse (parser.py).
VARIABLES raw, cleaned, parsed, cpc

\* The state of clean_choice_for_voice (voice.py, text.py).
VARIABLES cleaner, given, once, twice, vpc

\* The state of filter_spoken_lines (pipeline.py).
VARIABLES source, fi, seen, clean_choices, ppc

\* The state of run_pipeline (pipeline.py) and extract_all_choices
\* (tts/extractor.py).
VARIABLES files, ri, raw_choices, rpc, ei, all_choices, epc

\* The state of find_labels_and_jumps (utils/navigation.py).
VARIABLES nlines, nlabels, ni, src_label, jumps, npc

\* The state of the review stores (tts/database.py, annotate.py,
\* ab_test.py), of the TTS directories and of the labeling app (tts/cli.py).
VARIABLES choices_tbl, tts_files, status_tbl, disk, clock, current_file, dpc

\* The state of the export of a choice's context (tts/extractor.py,
\* choices.py).
VARIABLES side, hits, formatted, fpc

\* The state of annotate.SoundPlayer, of its player thread, of the mixer
\* and of a caller of play_audio (annotate.py).
VARIABLES playlist, sound_file, is_playing, music, spc, audio_path, calls, apc

\* The state of the labeling app's AudioPlayer, of the thread of
\* play_sequence, of the playback threads and of the player processes
\* (tts/cli.py).
VARIABLES before_file, play_after, seq_file, qpc, player_is_playing,
          current_process, kpc, proc

tvars == <<script, todo, labels, dialogues, menus, heap, pc, mi, ci,
           choices, result, mutated>>

wvars == <<ast, at, frames, records, wpc>>

gvars == <<glines, gi, current_label, label_stack, current_node_id,
           graph_choices, current_voice, menu_stack, branch_stack,
           last_dialogue_node, graph_nodes, graph_edges, contexts, gpc>>

cvars == <<raw, cleaned, parsed, cpc>>

vvars == <<cleaner, given, once, twice, vpc>>

pvars == <<source, fi, seen, clean_choices, ppc>>

rvars == <<files, ri, raw_choices, rpc, ei, all_choices, epc>>

nvars == <<nlines, nlabels, ni, src_label, jumps, npc>>

dvars == <<choices_tbl, tts_files, status_tbl, disk, clock, current_file, dpc>>

fvars == <<side, hits, formatted, fpc>>

mvars == <<playlist, sound_file, is_playing, music, spc, audio_path, calls,
           apc>>

qvars == <<before_file, play_after, seq_file, qpc, player_is_playing,
           current_process, kpc, proc>>

vars == <<tvars, wvars, gvars, cvars, vvars, pvars, rvars, nvars, dvars,
         fvars, mvars, qvars>>

\* What each machine leaves alone: the state of the others.
notT == <<wvars, gvars, cvars, vvars, pvars, rvars,
         nvars,
         dvars,
         fvars,
         mvars,
         qvars>>

notW == <<tvars, gvars, cvars, vvars, pvars, rvars,
         nvars,
         dvars,
         fvars,
         mvars,
         qvars>>

notG == <<tvars, wvars, cvars, vvars, pvars, rvars,
         nvars,
         dvars,
         fvars,
         mvars,
         qvars>>

notC == <<tvars, wvars, gvars, vvars, pvars, rvars,
         nvars,
         dvars,
         fvars,
         mvars,
         qvars>>

notV == <<tvars, wvars, gvars, cvars, pvars, rvars,
         nvars,
         dvars,
         fvars,
         mvars,
         qvars>>

notP == <<tvars, wvars, gvars, cvars, vvars, rvars,
         nvars,
         dvars,
         fvars,
         mvars,
         qvars>>

notR == <<tvars, wvars, gvars, cvars, vvars, pvars,
         nvars,
         dvars,
         fvars,
         mvars,
         qvars>>

notN == <<tvars, wvars, gvars, cvars,
         vvars, pvars, rvars,
         dvars,
         fvars,
         mvars,
         qvars>>

notD == <<tvars, wvars, gvars, cvars,
         vvars, pvars, rvars, nvars,
         fvars,
         mvars,
         qvars>>

notF == <<tvars, wvars, gvars, cvars,
         vvars, pvars, rvars, nvars, dvars,
         mvars,
         qvars>>

notM == <<tvars, wvars, gvars, cvars,
         vvars, pvars, rvars, nvars, dvars, fvars,
         qvars>>

notQ == <<tvars, wvars, gvars, cvars,
         vvars, pvars, rvars, nvars, dvars, fvars, mvars>>

\* Longest script (in lines) handed to the transformer.
MaxLines == 7

\* Python's None, as a line number, a voice path or a label name.
None == 0

(***************************************************************************)
(* The grammar: which line sequences grammar.parse accepts.                *)
(***************************************************************************)

\* The statements of the grammar, one per line.
Kinds == {"label", "menu", "choice", "voice", "dialogue"}

\* The dialogue texts _filter_dialogue tells apart.
Texts == {"plain", "fast"}

\* The texts a line of kind k is drawn from.  Only voiced_dialogue looks at
\* the text of a dialogue, so only a voiced line is drawn with both; the
\* choices are drawn without an "if" guard.
TextsOf(k, voiced) == IF k = "dialogue" /\ voiced THEN Texts ELSE {"plain"}

\* The line that opens the block holding a line of depth d placed after s
\* (0: the line is at the top level).
RECURSIVE OpenerAt(_, _, _)
OpenerAt(s, j, d) ==
    IF j = 0 THEN 0
    ELSE IF s[j].depth < d THEN j
    ELSE OpenerAt(s, j - 1, d)

\* The grammar accepts line l after the accepted prefix s.
CanFollow(s, l) ==
    LET n == Len(s)
        o == OpenerAt(s, n, l.depth)
        inMenu == o # 0 /\ s[o].kind = "menu"
    IN  /\ (l.kind = "choice") <=> inMenu
        /\ IF n = 0 THEN l.depth = 0
           ELSE /\ l.depth <= s[n].depth + 1
                /\ l.depth = s[n].depth + 1
                      => s[n].kind \in {"label", "menu", "choice"}
                /\ s[n].kind = "menu" => l.depth = s[n].depth + 1
                /\ s[n].kind = "voice"
                      => l.kind = "dialogue" /\ l.depth = s[n].depth

\* The lines the grammar accepts after s.
NextLines(s) ==
    LET top == IF Len(s) = 0 THEN 0 ELSE s[Len(s)].depth + 1
        voiced == Len(s) > 0 /\ s[Len(s)].kind = "voice"
        cand == UNION {{[kind |-> k, depth |-> d, text |-> t]
                           : t \in TextsOf(k, voiced)}
                          : <<k, d>> \in Kinds \X (0..top)}
    IN  {c \in cand : CanFollow(s, c)}

\* The input may end after s: neither a voice nor a menu is left dangling.
\* A script without a line is the text "\n", a lone _NL, which no rule
\* accepts.
Complete(s) ==
    IF Len(s) = 0 THEN FALSE ELSE s[Len(s)].kind \notin {"voice", "menu"}

(***************************************************************************)
(* The parse tree, read off the accepted line sequence.                    *)
(***************************************************************************)

\* The last line of the subtree that line i opens.
RECURSIVE End(_, _, _)
End(s, i, j) ==
    IF j < Len(s) /\ s[j + 1].depth > s[i].depth THEN End(s, i, j + 1) ELSE j

\* Line j lies inside the body of line i.
InBody(s, i, j) == i < j /\ j <= End(s, i, i)

\* "block?" is present after line i.
HasBlock(s, i) == End(s, i, i) > i

\* The statements directly under line i, in source order, each named by
\* its line (a voiced dialogue by the line of its dialogue).
RECURSIVE ChildLinesFrom(_, _, _, _)
ChildLinesFrom(s, d, j, last) ==
    IF j > last THEN <<>>
    ELSE IF s[j].depth = d /\ s[j].kind # "voice"
         THEN <<j>> \o ChildLinesFrom(s, d, j + 1, last)
         ELSE ChildLinesFrom(s, d, j + 1, last)

ChildLines(s, i) == ChildLinesFrom(s, s[i].depth + 1, i + 1, End(s, i, i))

\* The callbacks that write to the transformer's lists are voiced_dialogue,
\* label and menu.  Those due once line j has been read: the voiced
\* dialogue that ends at j, then every label and menu whose subtree ends at
\* j, innermost first.
RECURSIVE Closers(_, _, _)
Closers(s, j, i) ==
    IF i = 0 THEN <<>>
    ELSE IF s[i].kind \in {"label", "menu"} /\ End(s, i, i) = j
         THEN <<[rule |-> s[i].kind, line |-> i]>> \o Closers(s, j, i - 1)
         ELSE Closers(s, j, i - 1)

Leaves(s, j) ==
    IF j > 1 /\ s[j].kind = "dialogue" /\ s[j - 1].kind = "voice"
    THEN <<[rule |-> "voiced_dialogue", line |-> j]>>
    ELSE <<>>

\* The order in which Transformer.transform calls the callbacks: children
\* before their parent, left to right.
RECURSIVE PostOrder(_, _)
PostOrder(s, j) ==
    IF j > Len(s) THEN <<>>
    ELSE Leaves(s, j) \o Closers(s, j, j) \o PostOrder(s, j + 1)


(***************************************************************************)
(* The dataclasses of parser.py, as records tagged with their class.       *)
(***************************************************************************)

Line(line) == [type |-> "Line", line |-> line]

Dialogue(line, character, text, voice) ==
    [type |-> "Dialogue", line |-> line, character |-> character,
     text |-> text, voice |-> voice]

Choice(line, choice, condition, next_dialogue) ==
    [type |-> "Choice", line |-> line, choice |-> choice,
     condition |-> condition, label |-> None, prev_dialogue |-> None,
     next_dialogue |-> next_dialogue]

Menu(line, options) == [type |-> "Menu", line |-> line, choices |-> options]

Label(line, label) == [type |-> "Label", line |-> line, label |-> label]

Text(line, text) == [type |-> "Text", line |-> line, text |-> text]

\* lark.Tree, and a Python str.
Tree(data, children) == [type |-> "Tree", data |-> data, children |-> children]

Str(text) == [type |-> "str", text |-> text]

\* The texts of the script: a label is named after its line, a voice path
\* and a choice text likewise; every dialogue is spoken by "n".
NameAt(i) == i

(***************************************************************************)
(* ChoicesTransformer: the callbacks.                                      *)
(***************************************************************************)

\* voice: the path, a plain string.
voice(items) == Str(items[1].text)

\* dialogue: a Dialogue at the line of the speaker, without a voice.
dialogue(items) ==
    LET character == items[1]
        text_token == items[2]
    IN  Dialogue(character.line, character.text, text_token.text, None)

\* _filter_dialogue: notes and {fast} lines are not kept.
filter_dialogue(dlg) == dlg.text # "fast"

\* voiced_dialogue keyed at the line of the voice directive.
voiced_dialogue_at_voice_line(items) ==
    LET voice_path == items[1]
        dlg == items[2]
    IN  [dlg EXCEPT !.voice = voice_path.text, !.line = dlg.line - 1]

\* voiced_dialogue: the dialogue, now carrying the voice path.
voiced_dialogue(items) ==
    LET voice_path == items[1]
        dlg == items[2]
    IN  [dlg EXCEPT !.voice = voice_path.text]

\* extract_next_dialogue: the dialogues that follow a choice.
RECURSIVE extract_next_dialogue(_)
extract_next_dialogue(items) ==
    IF Len(items) = 0 THEN <<>>
    ELSE LET item == Head(items)
             rest == Tail(items)
         IN  IF item.type = "Dialogue"
                THEN <<item>> \o extract_next_dialogue(rest)
             ELSE IF item.type = "Menu"
                THEN <<>>
             ELSE IF item.data = "label"
                THEN extract_next_dialogue(Tail(item.children))
                     \o extract_next_dialogue(rest)
             ELSE IF item.data = "block"
                THEN extract_next_dialogue(item.children)
                     \o extract_next_dialogue(rest)
             ELSE extract_next_dialogue(rest)

\* choice: the quoted text, the optional guard, the dialogue that follows.
choice(items) ==
    LET quoted == Head(items)
        rest0 == Tail(items)
        guarded == Len(rest0) > 0 /\ rest0[1].type = "str"
        rest == IF guarded THEN Tail(rest0) ELSE rest0
    IN  Choice(quoted.line, quoted.text,
               IF guarded THEN rest0[1].text ELSE None,
               IF Len(rest) > 0 THEN extract_next_dialogue(rest) ELSE <<>>)


\* What Transformer.transform makes of the rule at line i of s: the value
\* its callback returns for the values of its children (a rule without a
\* callback, block, stays a Tree).
RECURSIVE ValueOf(_, _)
ValueOf(s, i) ==
    LET kids == ChildLines(s, i)
        values == [k \in 1..Len(kids) |-> ValueOf(s, kids[k])]
        block == IF HasBlock(s, i) THEN <<Tree("block", values)>> ELSE <<>>
        name == Text(i, NameAt(i))
    IN  CASE s[i].kind = "voice" -> voice(<<name>>)
          [] s[i].kind = "dialogue" ->
                LET dlg == dialogue(<<Text(i, "n"), Text(i, s[i].text)>>)
                IN  IF i > 1 /\ s[i - 1].kind = "voice"
                    THEN voiced_dialogue(<<ValueOf(s, i - 1), dlg>>)
                    ELSE dlg
          [] s[i].kind = "label" -> Tree("label", <<name>> \o block)
          [] s[i].kind = "menu" -> Tree("menu", values)
          [] s[i].kind = "choice" -> choice(<<name>> \o block)

\* sorted(items, key=attrgetter("line")): a stable sort by line.
RECURSIVE insert_by_line(_, _)
insert_by_line(sorted, x) ==
    IF Len(sorted) = 0 THEN <<x>>
    ELSE IF sorted[Len(sorted)].line <= x.line THEN Append(sorted, x)
    ELSE Append(insert_by_line(SubSeq(sorted, 1, Len(sorted) - 1), x),
                sorted[Len(sorted)])

\* sorted that leaves the order as it is.
unsorted(items) == items

RECURSIVE sorted_by_line(_)
sorted_by_line(items) ==
    IF Len(items) = 0 THEN <<>>
    ELSE insert_by_line(sorted_by_line(SubSeq(items, 1, Len(items) - 1)),
                        items[Len(items)])

\* bisect.bisect_right(a, x) on the 0-based window lo..hi.
RECURSIVE bisect_right(_, _, _, _)
bisect_right(a, x, lo, hi) ==
    IF lo < hi
    THEN LET mid == (lo + hi) \div 2
         IN  IF x < a[mid + 1] THEN bisect_right(a, x, lo, mid)
             ELSE bisect_right(a, x, mid + 1, hi)
    ELSE lo

\* _find_context_at_line: the last item at or before the line, else Line(1).
find_context_at_line(items, line) ==
    LET sorted == sorted_by_line(items)
        lines == [k \in 1..Len(sorted) |-> sorted[k].line]
        index == bisect_right(lines, line, 0, Len(lines)) - 1
    IN  IF index # -1 THEN sorted[index + 1] ELSE Line(1)

find_label_at_line(line) == find_context_at_line(labels, line)

find_menu_before_line(line) == find_context_at_line(menus, line - 1)

\* find_prev_dialogue that hands out a list it handed out before when the
\* contents are the same.
find_prev_dialogue_shared(h, start, stop) ==
    LET found == SelectSeq(dialogues, LAMBDA d : d.line > start /\ d.line < stop)
        same == {r \in 1..Len(h) : h[r] = found}
    IN  IF same = {} THEN [heap |-> Append(h, found), ref |-> Len(h) + 1]
        ELSE [heap |-> h, ref |-> CHOOSE r \in same : TRUE]

\* find_prev_dialogue: a new list, allocated in the heap h, of the kept
\* dialogues strictly between the two lines; the heap and the reference.
find_prev_dialogue(h, start, stop) ==
    LET found == SelectSeq(dialogues, LAMBDA d : d.line > start /\ d.line < stop)
    IN  [heap |-> Append(h, found), ref |-> Len(h) + 1]

(***************************************************************************)
(* The transformer as a state machine.                                     *)
(***************************************************************************)

\* The transformer before pc is set: empty lists, nothing returned.
NewT ==
    /\ script = <<>>
    /\ todo = <<>>
    /\ labels = <<>>
    /\ dialogues = <<>>
    /\ menus = <<>>
    /\ heap = <<>>
    /\ mi = 1
    /\ ci = 1
    /\ choices = <<>>
    /\ result = <<>>
    /\ mutated = None

\* The tree walk before wpc is set.
NewW ==
    /\ ast = <<>>
    /\ at = 0
    /\ frames = <<>>
    /\ records = <<>>

\* RenpyScriptGraph.__init__, before gpc is set.
NewG ==
    /\ glines = <<>>
    /\ gi = 1
    /\ current_label = None
    /\ label_stack = <<>>
    /\ current_node_id = 0
    /\ graph_choices = <<>>
    /\ current_voice = None
    /\ menu_stack = <<>>
    /\ branch_stack = <<>>
    /\ last_dialogue_node = None
    /\ graph_nodes = <<>>
    /\ graph_edges = <<>>
    /\ contexts = <<>>

\* clean_script before the file is read.
NewC ==
    /\ raw = <<>>
    /\ cleaned = <<>>
    /\ parsed = "none"

\* Python's None where a text is expected.
NoText == <<"None">>

\* clean_choice_for_voice before it is called.
NewV ==
    /\ cleaner = "none"
    /\ given = <<>>
    /\ once = NoText
    /\ twice = NoText

\* filter_spoken_lines before it is called.
NewP ==
    /\ source = <<>>
    /\ fi = 1
    /\ seen = {}
    /\ clean_choices = <<>>

\* The whole-corpus runs before they start.
NewR ==
    /\ files = <<>>
    /\ ri = 1
    /\ raw_choices = <<>>
    /\ ei = 1
    /\ all_choices = <<>>

\* find_labels_and_jumps before it is called.
NewN ==
    /\ nlines = <<>>
    /\ nlabels = {}
    /\ ni = 1
    /\ src_label = None
    /\ jumps = <<>>

\* The review stores when they are created, the labeling app before it
\* is mounted.
NewD ==
    /\ choices_tbl = {}
    /\ tts_files = <<>>
    /\ status_tbl = [t \in {"annotations", "ab_results"} |-> {}]
    /\ disk = {}
    /\ clock = 0
    /\ current_file = None

\* The export of a choice's context before it starts.
NewF ==
    /\ side = "before"
    /\ hits = <<>>
    /\ formatted = <<>>

\* Python's None where a sound file is expected.
NoFile == "None"

\* A SoundPlayer as __init__ leaves it, and a silent mixer.
NewM ==
    /\ playlist = <<>>
    /\ sound_file = NoFile
    /\ is_playing = FALSE
    /\ music = NoFile
    /\ audio_path = NoFile
    /\ calls = 0

\* The files of a playback sequence: the context before the choice, the
\* TTS file, the context after it.
SequenceFiles == 1..3

\* A playback thread at a step of _play_in_thread; in wait() it holds the
\* process it waits on.
At(step) == [at |-> step, on |-> None]

\* An AudioPlayer as __init__ leaves it; no playback thread, no process.
NewQ ==
    /\ before_file = FALSE
    /\ play_after = FALSE
    /\ seq_file = 1
    /\ player_is_playing = FALSE
    /\ current_process = None
    /\ kpc = [k \in SequenceFiles |-> At("unstarted")]
    /\ proc = [k \in SequenceFiles |-> "none"]

\* The machines that a specification does not run.
IdleT == NewT /\ pc = "idle"

IdleW == NewW /\ wpc = "idle"

IdleG == NewG /\ gpc = "idle"

IdleC == NewC /\ cpc = "idle"

IdleV == NewV /\ vpc = "idle"

IdleP == NewP /\ ppc = "idle"

IdleR == NewR /\ rpc = "idle" /\ epc = "idle"

IdleN == NewN /\ npc = "idle"

IdleD == NewD /\ dpc = "idle"

IdleF == NewF /\ fpc = "idle"

IdleM == NewM /\ spc = "idle" /\ apc = "idle"

IdleQ == NewQ /\ qpc = "idle"

Init ==
    /\ NewT
    /\ pc = "parse"
    /\ IdleW
    /\ IdleG
    /\ IdleC
    /\ IdleV
    /\ IdleP
    /\ IdleR
    /\ IdleN
    /\ IdleD
    /\ IdleF
    /\ IdleM
    /\ IdleQ

\* grammar.parse reads one more line of the cleaned script.
ParseLine ==
    /\ pc = "parse"
    /\ Len(script) < MaxLines
    /\ \E l \in NextLines(script) : script' = Append(script, l)
    /\ UNCHANGED <<todo, labels, dialogues, menus, heap, pc, mi, ci,
                   choices, result, mutated>>
    /\ UNCHANGED notT

\* grammar.parse reaches the end of the script: the tree is handed to
\* ChoicesTransformer().transform.
ParseEnd ==
    /\ pc = "parse"
    /\ Complete(script)
    /\ todo' = PostOrder(script, 1)
    /\ pc' = IF Len(todo') = 0 THEN "start" ELSE "transform"
    /\ UNCHANGED <<script, labels, dialogues, menus, heap, mi, ci, choices,
                   result, mutated>>
    /\ UNCHANGED notT

\* The next callback to write to the transformer's lists is the given rule.
Reducing(rule) == pc = "transform" /\ Head(todo).rule = rule

Reduced ==
    /\ todo' = Tail(todo)
    /\ pc' = IF Len(todo) = 1 THEN "start" ELSE "transform"
    /\ UNCHANGED <<script, heap, mi, ci, choices, result, mutated>>
    /\ UNCHANGED notT

\* voiced_dialogue: the dialogue is kept unless it is filtered.
ReduceVoicedDialogue ==
    /\ Reducing("voiced_dialogue")
    /\ LET dlg == ValueOf(script, Head(todo).line)
       IN  dialogues' = IF filter_dialogue(dlg) THEN Append(dialogues, dlg)
                        ELSE dialogues
    /\ Reduced
    /\ UNCHANGED <<labels, menus>>

\* label: the label is kept.
ReduceLabel ==
    /\ Reducing("label")
    /\ LET items == ValueOf(script, Head(todo).line).children
           label_name == items[1]
       IN  labels' = Append(labels, Label(label_name.line, label_name.text))
    /\ Reduced
    /\ UNCHANGED <<dialogues, menus>>

\* menu: the menu is kept with its choices.
ReduceMenu ==
    /\ Reducing("menu")
    /\ LET i == Head(todo).line
           items == ValueOf(script, i).children
       IN  menus' = Append(menus, Menu(i, items))
    /\ Reduced
    /\ UNCHANGED <<labels, dialogues>>

\* start, one choice of one menu: the label and the preceding dialogue.
\* Line(1), returned when no label precedes, has no attribute "label".
StartChoice ==
    /\ pc = "start"
    /\ mi <= Len(menus)
    /\ LET menu == menus[mi]
           c == menu.choices[ci]
           label == find_label_at_line(c.line)
           prev_menu == find_menu_before_line(menu.line)
       IN  IF label.type # "Label"
           THEN /\ pc' = "failed"
                /\ choices' = <<>>
                /\ UNCHANGED <<heap, mi, ci>>
           ELSE LET prev == find_prev_dialogue(heap, prev_menu.line, menu.line)
                IN  /\ heap' = prev.heap
                    /\ choices' = Append(choices,
                           [c EXCEPT !.label = label.label,
                                     !.prev_dialogue = prev.ref])
                    /\ IF ci < Len(menu.choices)
                       THEN ci' = ci + 1 /\ mi' = mi
                       ELSE ci' = 1 /\ mi' = mi + 1
                    /\ pc' = pc
    /\ UNCHANGED <<script, todo, labels, dialogues, menus, result, mutated>>
    /\ UNCHANGED notT

\* start, the return: the choices sorted by line.
StartReturn ==
    /\ pc = "start"
    /\ mi > Len(menus)
    /\ result' = sorted_by_line(choices)
    /\ pc' = "done"
    /\ UNCHANGED <<script, todo, labels, dialogues, menus, heap, mi, ci,
                   choices, mutated>>
    /\ UNCHANGED notT

\* What a caller appends to a returned prev_dialogue list.
Appended == Dialogue(None, "caller", "plain", None)

\* A caller appends to the prev_dialogue list of one returned choice.
Mutate ==
    /\ pc = "done"
    /\ mutated = None
    /\ \E k \in 1..Len(result) :
          /\ heap' = [heap EXCEPT ![result[k].prev_dialogue] = Append(@, Appended)]
          /\ mutated' = result[k].line
    /\ UNCHANGED <<script, todo, labels, dialogues, menus, pc, mi, ci,
                   choices, result>>
    /\ UNCHANGED notT

Next ==
    \/ ParseLine
    \/ ParseEnd
    \/ ReduceVoicedDialogue
    \/ ReduceLabel
    \/ ReduceMenu
    \/ StartChoice
    \/ StartReturn
    \/ Mutate

Spec == Init /\ [][Next]_vars


(***************************************************************************)
(* extract_choices: the depth-first walk of the normalized tree that the   *)
(* tests of tests/test_choices.py exercise.  The tree is the sequence of   *)
(* its nodes in source order, each with its kind and its depth; a node's   *)
(* line is its position.                                                   *)
(***************************************************************************)

\* Most nodes of a normalized tree.
MaxNodes == 6

\* The node classes of models.py (Script is the root, at no line).
NodeKinds == {"label", "menu", "choice", "dialogue", "cond", "jump"}

\* Node n may follow the nodes t: a Choice sits directly under a Menu and
\* nothing else does; a Label, Menu or Condition is never empty.
NodeCanFollow(t, n) ==
    LET len == Len(t)
        o == OpenerAt(t, len, n.depth)
        inMenu == o # 0 /\ t[o].kind = "menu"
    IN  /\ (n.kind = "choice") <=> inMenu
        /\ IF len = 0 THEN n.depth = 0
           ELSE /\ n.depth <= t[len].depth + 1
                /\ n.depth = t[len].depth + 1
                      => t[len].kind \in {"label", "menu", "choice", "cond"}
                /\ t[len].kind \in {"label", "menu", "cond"}
                      => n.depth = t[len].depth + 1

NextNodes(t) ==
    LET top == IF Len(t) = 0 THEN 0 ELSE t[Len(t)].depth + 1
    IN  {n \in [kind : NodeKinds, depth : 0..top] : NodeCanFollow(t, n)}

WholeTree(t) ==
    IF Len(t) = 0 THEN TRUE ELSE t[Len(t)].kind \notin {"label", "menu", "cond"}

\* models.Choice as it stands in a path: the chosen option, no children.
ChosenMarker(line) ==
    [type |-> "Choice", line |-> line, choice |-> NameAt(line),
     condition |-> None, children |-> <<>>]

\* The Dialogue nodes of t from line i to line j, in order.
RECURSIVE DialoguesIn(_, _, _)
DialoguesIn(t, i, j) ==
    IF i > j THEN <<>>
    ELSE IF t[i].kind = "dialogue"
         THEN <<Dialogue(i, "n", "plain", None)>> \o DialoguesIn(t, i + 1, j)
         ELSE DialoguesIn(t, i + 1, j)

\* The dialogue that follows the choice at line c: the Dialogue nodes of
\* its body up to the first Menu or Jump, through Labels and Conditions.
collect_subsequent(t, c) ==
    LET last == End(t, c, c)
        stops == {j \in (c + 1)..last : t[j].kind \in {"menu", "jump"}}
        stop == IF stops = {} THEN last + 1
                ELSE CHOOSE j \in stops : \A o \in stops : j <= o
    IN  DialoguesIn(t, c + 1, stop - 1)

\* models.ChoiceResult.
ChoiceResult(line, label, path, subsequent) ==
    [line |-> line, choice |-> NameAt(line), condition |-> None,
     label |-> label, previous_dialogues |-> path,
     subsequent_dialogues |-> subsequent]

\* The context the children of a node are walked in.
Frame(path, label, via) == [path |-> path, label |-> label, via |-> via]

\* Label: the children see the label's name; the path is not reset.
enter_label_reset(ctx, i) == Frame(<<>>, NameAt(i), "label")

enter_label(ctx, i) == Frame(ctx.path, NameAt(i), "label")

\* Menu, Condition: the same path and label.
enter_transparent(ctx, kind) == Frame(ctx.path, ctx.label, kind)

\* Choice: the children see a new path, ending with the chosen option.
enter_choice_unmarked(ctx, i) == Frame(ctx.path, ctx.label, "choice")

enter_choice(ctx, i) ==
    Frame(Append(ctx.path, ChosenMarker(i)), ctx.label, "choice")

\* Dialogue: appended to the path.
on_dialogue(ctx, i) ==
    [ctx EXCEPT !.path = Append(@, Dialogue(i, "n", "plain", None))]

\* The returns from the children walked last, back to depth d: what a
\* Choice's children appended is dropped, anything else stays in the path.
RECURSIVE Unwind(_, _)
Unwind(fr, d) ==
    IF Len(fr) <= d + 1 THEN fr
    ELSE LET top == fr[Len(fr)]
             below == SubSeq(fr, 1, Len(fr) - 1)
         IN  Unwind(IF top.via = "choice" THEN below
                    ELSE [below EXCEPT ![Len(below)].path = top.path], d)

InitW ==
    /\ NewW
    /\ wpc = "tree"
    /\ IdleT
    /\ IdleG
    /\ IdleC
    /\ IdleV
    /\ IdleP
    /\ IdleR
    /\ IdleN
    /\ IdleD
    /\ IdleF
    /\ IdleM
    /\ IdleQ

\* The normalizer hands over one more node of the tree.
TreeNode ==
    /\ wpc = "tree"
    /\ Len(ast) < MaxNodes
    /\ \E n \in NextNodes(ast) : ast' = Append(ast, n)
    /\ UNCHANGED <<at, frames, records, wpc>>
    /\ UNCHANGED notW

\* extract_choices is called on the Script: an empty path and no label.
WalkScript ==
    /\ wpc = "tree"
    /\ WholeTree(ast)
    /\ wpc' = "walk"
    /\ at' = 1
    /\ frames' = <<Frame(<<>>, None, "script")>>
    /\ UNCHANGED <<ast, records>>
    /\ UNCHANGED notW

\* The walk reaches the node at line "at", of the given kinds.
Visiting(kinds) == wpc = "walk" /\ at <= Len(ast) /\ ast[at].kind \in kinds

\* The frames once the walk has returned to the depth of the node.
Returned == Unwind(frames, ast[at].depth)

\* The context the node is walked in.
Context == Returned[ast[at].depth + 1]

WalkDialogue ==
    /\ Visiting({"dialogue"})
    /\ frames' = [Returned EXCEPT ![ast[at].depth + 1] = on_dialogue(Context, at)]
    /\ at' = at + 1
    /\ UNCHANGED <<ast, records, wpc>>
    /\ UNCHANGED notW

WalkLabel ==
    /\ Visiting({"label"})
    /\ frames' = Append(Returned, enter_label(Context, at))
    /\ at' = at + 1
    /\ UNCHANGED <<ast, records, wpc>>
    /\ UNCHANGED notW

WalkTransparent ==
    /\ Visiting({"menu", "cond"})
    /\ frames' = Append(Returned, enter_transparent(Context, ast[at].kind))
    /\ at' = at + 1
    /\ UNCHANGED <<ast, records, wpc>>
    /\ UNCHANGED notW

WalkChoice ==
    /\ Visiting({"choice"})
    /\ records' = Append(records,
           ChoiceResult(at, Context.label, Context.path,
                        collect_subsequent(ast, at)))
    /\ frames' = Append(Returned, enter_choice(Context, at))
    /\ at' = at + 1
    /\ UNCHANGED <<ast, wpc>>
    /\ UNCHANGED notW

WalkJump ==
    /\ Visiting({"jump"})
    /\ frames' = Returned
    /\ at' = at + 1
    /\ UNCHANGED <<ast, records, wpc>>
    /\ UNCHANGED notW

\* Every node is walked: extract_choices returns the records.
WalkReturn ==
    /\ wpc = "walk"
    /\ at > Len(ast)
    /\ wpc' = "done"
    /\ frames' = <<>>
    /\ UNCHANGED <<ast, at, records>>
    /\ UNCHANGED notW

NextW ==
    \/ TreeNode
    \/ WalkScript
    \/ WalkDialogue
    \/ WalkLabel
    \/ WalkTransparent
    \/ WalkChoice
    \/ WalkJump
    \/ WalkReturn

SpecW == InitW /\ [][NextW]_vars

(***************************************************************************)
(* RenpyScriptGraph (src/src/princess/choices.py): the script as a graph   *)
(* of labels, dialogues, menus and choices, built line by line from the    *)
(* lines its clean_script keeps.  A node is named by its number.           *)
(***************************************************************************)

\* Most lines of a script handed to RenpyScriptGraph.
MaxGraphLines == 4

\* Deepest indentation of such a line.
MaxIndent == 2

\* max_depth of get_context_before and get_context_after.
MaxDepth == 100

\* The lines clean_script keeps: one of the five patterns matched; choice_re
\* asks for leading whitespace.
GraphLines ==
    {l \in [kind : Kinds, indent : 0..MaxIndent] :
        l.kind = "choice" => l.indent >= 1}

\* choices.Dialogue.
GraphDialogue(character, text, voice_path, label_name, node_id, indent_level) ==
    [character |-> character, text |-> text, voice |-> voice_path,
     label |-> label_name, node_id |-> node_id, indent_level |-> indent_level]

\* choices.Choice.
GraphChoice(text, condition, node_id, label_path, indent_level) ==
    [text |-> text, condition |-> condition, node_id |-> node_id,
     label_path |-> label_path, indent_level |-> indent_level]

\* "Pop branch context when indent decreases".
RECURSIVE PopBranches(_, _)
PopBranches(stack, indent) ==
    IF Len(stack) > 0 /\ indent <= stack[Len(stack)][2]
    THEN PopBranches(SubSeq(stack, 1, Len(stack) - 1), indent)
    ELSE stack

\* graph.add_edge from the last dialogue node, if there is one.
EdgeFromLast(node_id) ==
    IF last_dialogue_node # None
    THEN Append(graph_edges, <<last_dialogue_node, node_id>>)
    ELSE graph_edges

\* graph.predecessors and graph.successors, in the order the edges came.
Predecessors(n) ==
    LET into == SelectSeq(graph_edges, LAMBDA e : e[2] = n)
    IN  [k \in 1..Len(into) |-> into[k][1]]

Successors(n) ==
    LET from == SelectSeq(graph_edges, LAMBDA e : e[1] = n)
    IN  [k \in 1..Len(from) |-> from[k][2]]

\* get_context_before: the dialogues reached backwards from a node, depth
\* first, with the set of visited nodes shared by the whole search.
RECURSIVE get_context_before(_, _, _), BeforeEach(_, _, _, _)
get_context_before(n, max_depth, visited) ==
    IF max_depth <= 0 \/ n \in visited
    THEN [context |-> <<>>, visited |-> visited]
    ELSE BeforeEach(Predecessors(n), max_depth, visited \cup {n}, <<>>)

BeforeEach(preds, max_depth, visited, context) ==
    IF Len(preds) = 0 THEN [context |-> context, visited |-> visited]
    ELSE LET pred == Head(preds)
             own == IF graph_nodes[pred].type = "dialogue"
                    THEN <<graph_nodes[pred].data>> ELSE <<>>
             sub == get_context_before(pred, max_depth - 1, visited)
         IN  BeforeEach(Tail(preds), max_depth, sub.visited,
                        context \o own \o sub.context)

\* get_context_after: the same search along the successors.
RECURSIVE get_context_after(_, _, _), AfterEach(_, _, _, _)
get_context_after(n, max_depth, visited) ==
    IF max_depth <= 0 \/ n \in visited
    THEN [context |-> <<>>, visited |-> visited]
    ELSE AfterEach(Successors(n), max_depth, visited \cup {n}, <<>>)

AfterEach(succs, max_depth, visited, context) ==
    IF Len(succs) = 0 THEN [context |-> context, visited |-> visited]
    ELSE LET succ == Head(succs)
             own == IF graph_nodes[succ].type = "dialogue"
                    THEN <<graph_nodes[succ].data>> ELSE <<>>
             sub == get_context_after(succ, max_depth - 1, visited)
         IN  AfterEach(Tail(succs), max_depth, sub.visited,
                       context \o own \o sub.context)

InitG ==
    /\ NewG
    /\ gpc = "lines"
    /\ IdleT
    /\ IdleW
    /\ IdleC
    /\ IdleV
    /\ IdleP
    /\ IdleR
    /\ IdleN
    /\ IdleD
    /\ IdleF
    /\ IdleM
    /\ IdleQ

\* clean_script keeps one more line of the file.
GraphLine ==
    /\ gpc = "lines"
    /\ Len(glines) < MaxGraphLines
    /\ \E l \in GraphLines : glines' = Append(glines, l)
    /\ UNCHANGED <<gi, current_label, label_stack, current_node_id,
                   graph_choices, current_voice, menu_stack, branch_stack,
                   last_dialogue_node, graph_nodes, graph_edges, contexts, gpc>>
    /\ UNCHANGED notG

\* parse_script starts on the kept lines.
GraphParse ==
    /\ gpc = "lines"
    /\ gpc' = "scan"
    /\ UNCHANGED <<glines, gi, current_label, label_stack, current_node_id,
                   graph_choices, current_voice, menu_stack, branch_stack,
                   last_dialogue_node, graph_nodes, graph_edges, contexts>>
    /\ UNCHANGED notG

\* The loop of parse_script is at a line of the given kind.
Scanning(kind) == gpc = "scan" /\ gi <= Len(glines) /\ glines[gi].kind = kind

\* The branch stack once the line's indent has closed what it closes.
OpenBranches == PopBranches(branch_stack, glines[gi].indent)

\* get_next_node_id.
NextNodeId == current_node_id + 1

\* "New label".
GraphLabel ==
    /\ Scanning("label")
    /\ current_label' = NameAt(gi)
    /\ label_stack' = <<NameAt(gi)>>
    /\ current_node_id' = NextNodeId
    /\ graph_nodes' = Append(graph_nodes, [type |-> "label", label |-> NameAt(gi)])
    /\ graph_edges' = EdgeFromLast(NextNodeId)
    /\ last_dialogue_node' = NextNodeId
    /\ branch_stack' = OpenBranches
    /\ gi' = gi + 1
    /\ UNCHANGED <<glines, graph_choices, current_voice, menu_stack, contexts, gpc>>
    /\ UNCHANGED notG

\* "Voice line": the path is remembered for the next dialogue.
GraphVoice ==
    /\ Scanning("voice")
    /\ current_voice' = NameAt(gi)
    /\ branch_stack' = OpenBranches
    /\ gi' = gi + 1
    /\ UNCHANGED <<glines, current_label, label_stack, current_node_id,
                   graph_choices, menu_stack, last_dialogue_node, graph_nodes,
                   graph_edges, contexts, gpc>>
    /\ UNCHANGED notG

\* "Character dialogue": a node with the remembered voice, tied to every
\* open branch or else to the last dialogue node.
GraphCharacter ==
    /\ Scanning("dialogue")
    /\ LET node_id == NextNodeId
           dlg == GraphDialogue("n", gi, current_voice, current_label,
                                node_id, glines[gi].indent)
           open == OpenBranches
       IN  /\ graph_nodes' = Append(graph_nodes, [type |-> "dialogue", data |-> dlg])
           /\ graph_edges' =
                 IF Len(open) > 0
                 THEN graph_edges \o [k \in 1..Len(open) |-> <<open[k][1], node_id>>]
                 ELSE EdgeFromLast(node_id)
           /\ branch_stack' = open
           /\ last_dialogue_node' = node_id
           /\ current_node_id' = node_id
    /\ current_voice' = None
    /\ gi' = gi + 1
    /\ UNCHANGED <<glines, current_label, label_stack, graph_choices,
                   menu_stack, contexts, gpc>>
    /\ UNCHANGED notG

\* "Menu (choice set)".
GraphMenu ==
    /\ Scanning("menu")
    /\ current_node_id' = NextNodeId
    /\ graph_nodes' = Append(graph_nodes, [type |-> "menu"])
    /\ graph_edges' = EdgeFromLast(NextNodeId)
    /\ menu_stack' = Append(menu_stack, <<NextNodeId, glines[gi].indent>>)
    /\ branch_stack' = OpenBranches
    /\ gi' = gi + 1
    /\ UNCHANGED <<glines, current_label, label_stack, graph_choices,
                   current_voice, last_dialogue_node, contexts, gpc>>
    /\ UNCHANGED notG

\* "Choice": a node and an entry of self.choices, tied to the last menu.
GraphOption ==
    /\ Scanning("choice")
    /\ LET node_id == NextNodeId
           c == GraphChoice(NameAt(gi), None, node_id, label_stack,
                            glines[gi].indent)
       IN  /\ graph_nodes' = Append(graph_nodes, [type |-> "choice", data |-> c])
           /\ graph_choices' = Append(graph_choices, c)
           /\ graph_edges' =
                 IF Len(menu_stack) > 0
                 THEN Append(graph_edges, <<menu_stack[Len(menu_stack)][1], node_id>>)
                 ELSE graph_edges
           /\ branch_stack' = Append(OpenBranches, <<node_id, glines[gi].indent>>)
           /\ current_node_id' = node_id
    /\ gi' = gi + 1
    /\ UNCHANGED <<glines, current_label, label_stack, current_voice,
                   menu_stack, last_dialogue_node, contexts, gpc>>
    /\ UNCHANGED notG

\* extract_choice_contexts: every entry of self.choices with its contexts.
GraphContexts ==
    /\ gpc = "scan"
    /\ gi > Len(glines)
    /\ contexts' =
          [k \in 1..Len(graph_choices) |->
              [choice |-> graph_choices[k],
               context_before |->
                   get_context_before(graph_choices[k].node_id, MaxDepth, {}).context,
               context_after |->
                   get_context_after(graph_choices[k].node_id, MaxDepth, {}).context]]
    /\ gpc' = "done"
    /\ UNCHANGED <<glines, gi, current_label, label_stack, current_node_id,
                   graph_choices, current_voice, menu_stack, branch_stack,
                   last_dialogue_node, graph_nodes, graph_edges>>
    /\ UNCHANGED notG

NextG ==
    \/ GraphLine
    \/ GraphParse
    \/ GraphLabel
    \/ GraphVoice
    \/ GraphCharacter
    \/ GraphMenu
    \/ GraphOption
    \/ GraphContexts

SpecG == InitG /\ [][NextG]_vars

(***************************************************************************)
(* clean_script and grammar.parse (src/src/princess/parser.py): the file   *)
(* as a sequence of lines, each with a kind and an indentation; the lines  *)
(* clean_script keeps, with the indentation it leaves them; whether the    *)
(* indenter and the grammar accept them.                                   *)
(***************************************************************************)

\* Most lines of a script file.
MaxRawLines == 4

\* The lines of a file: the five kinds clean_script keeps, the if/elif/else
\* headers it removes, and what it drops: blank lines, comments, the rest.
RawKinds == Kinds \cup {"if", "other", "blank", "comment"}

\* The lines that end with a colon and may have a block under them.
Openers == {"label", "menu", "choice", "if", "other"}

\* The lines of a file that carry a statement.
Significant(s) == SelectSeq(s, LAMBDA l : l.kind \notin {"blank", "comment"})

\* The indentations of the blocks open after the statements s.
RECURSIVE OpenIndents(_)
OpenIndents(s) ==
    IF Len(s) = 0 THEN {}
    ELSE LET l == s[Len(s)]
             before == OpenIndents(SubSeq(s, 1, Len(s) - 1))
         IN  {x \in before : x < l.indent} \cup {l.indent}

\* Line l may follow the lines s of a file: it is indented like a block that
\* is open, or deeper than the block opener before it.  Blank lines and
\* comments stand anywhere.
RawCanFollow(s, l) ==
    LET sig == Significant(s)
    IN  IF l.kind \in {"blank", "comment"} THEN TRUE
        ELSE IF Len(sig) = 0 THEN l.indent = 0
        ELSE \/ l.indent \in OpenIndents(sig)
             \/ /\ l.indent > sig[Len(sig)].indent
                /\ sig[Len(sig)].kind \in Openers

\* The next line after line i that is not empty, 0 if there is none.
RECURSIVE NextNonEmpty(_, _)
NextNonEmpty(lines, j) ==
    IF j > Len(lines) THEN 0
    ELSE IF lines[j].kind = "blank" THEN NextNonEmpty(lines, j + 1)
    ELSE j

\* stack.pop() left out.
pop_nothing(stack, current_indent) == stack

\* "Pop out of any control block when the current line is no longer as
\* indented."
RECURSIVE PopControl(_, _)
PopControl(stack, current_indent) ==
    IF Len(stack) > 0 /\ current_indent <= stack[Len(stack)][1]
    THEN PopControl(SubSeq(stack, 1, Len(stack) - 1), current_indent)
    ELSE stack

\* sum(rem for _, rem in stack).
RECURSIVE TotalRemoval(_)
TotalRemoval(stack) ==
    IF Len(stack) = 0 THEN 0
    ELSE stack[Len(stack)][2] + TotalRemoval(SubSeq(stack, 1, Len(stack) - 1))

\* clean_inner from line i on, with the stack of (block_indent,
\* removal_amount) of the control blocks: the lines it yields.
RECURSIVE clean_inner(_, _, _)
clean_inner(lines, i, stack0) ==
    IF i > Len(lines) THEN <<>>
    ELSE LET line == lines[i]
             current_indent == line.indent
             stack == PopControl(stack0, current_indent)
         IN  IF line.kind = "if"
             THEN LET j == NextNonEmpty(lines, i + 1)
                      removal == IF j # 0 /\ lines[j].indent > current_indent
                                 THEN lines[j].indent - current_indent
                                 ELSE 0
                  IN  clean_inner(lines, i + 1,
                                  IF removal > 0
                                  THEN Append(stack, <<current_indent, removal>>)
                                  ELSE stack)
             ELSE LET total_removal == TotalRemoval(stack)
                      new_line == [kind |-> line.kind,
                                   indent |-> IF line.indent >= total_removal
                                              THEN line.indent - total_removal
                                              ELSE 0,
                                   from |-> i]
                  IN  (IF line.kind \in Kinds THEN <<new_line>> ELSE <<>>)
                      \o clean_inner(lines, i + 1, stack)

\* RenpyIndenter: dedent to an indentation that is open.
RECURSIVE DedentTo(_, _)
DedentTo(levels, indent) ==
    IF indent < levels[Len(levels)]
    THEN DedentTo(SubSeq(levels, 1, Len(levels) - 1), indent)
    ELSE levels

\* RenpyIndenter over the lines from k on: each line with the depth of its
\* block, unless a dedent matches no open indentation (DedentError).  The
\* whitespace before the first line is ignored.
RECURSIVE Indented(_, _, _, _)
Indented(lines, k, levels, out) ==
    IF k > Len(lines) THEN [ok |-> TRUE, lines |-> out]
    ELSE LET indent == IF k = 1 THEN 0 ELSE lines[k].indent
             now == IF indent > levels[Len(levels)] THEN Append(levels, indent)
                    ELSE DedentTo(levels, indent)
         IN  IF now[Len(now)] # indent THEN [ok |-> FALSE, lines |-> out]
             ELSE Indented(lines, k + 1, now,
                      Append(out, [kind |-> lines[k].kind,
                                   depth |-> Len(now) - 1,
                                   text |-> "plain"]))

\* grammar.parse returns a tree for the cleaned lines.
Parses(lines) ==
    LET r == Indented(lines, 1, <<0>>, <<>>)
    IN  /\ r.ok
        /\ \A k \in 1..Len(r.lines) :
               CanFollow(SubSeq(r.lines, 1, k - 1), r.lines[k])
        /\ Complete(r.lines)

InitC ==
    /\ NewC
    /\ cpc = "file"
    /\ IdleT
    /\ IdleW
    /\ IdleG
    /\ IdleV
    /\ IdleP
    /\ IdleR
    /\ IdleN
    /\ IdleD
    /\ IdleF
    /\ IdleM
    /\ IdleQ

\* The file has one more line.
RawLine ==
    /\ cpc = "file"
    /\ Len(raw) < MaxRawLines
    /\ \E l \in [kind : RawKinds, indent : 0..MaxIndent] :
          /\ RawCanFollow(raw, l)
          /\ raw' = Append(raw, l)
    /\ UNCHANGED <<cleaned, parsed, cpc>>
    /\ UNCHANGED notC

\* clean_script(path).
CleanScript ==
    /\ cpc = "file"
    /\ cleaned' = clean_inner(raw, 1, <<>>)
    /\ cpc' = "cleaned"
    /\ UNCHANGED <<raw, parsed>>
    /\ UNCHANGED notC

\* grammar.parse(script): a tree, or an exception.
GrammarParse ==
    /\ cpc = "cleaned"
    /\ parsed' = IF Parses(cleaned) THEN "tree" ELSE "error"
    /\ cpc' = "parsed"
    /\ UNCHANGED <<raw, cleaned>>
    /\ UNCHANGED notC

NextC ==
    \/ RawLine
    \/ CleanScript
    \/ GrammarParse

SpecC == InitC /\ [][NextC]_vars

(***************************************************************************)
(* The script as the claims read it.                                       *)
(***************************************************************************)

LinesOfKind(k) == {i \in 1..Len(script) : script[i].kind = k}

\* A dialogue line that directly follows a voice line.
IsVoiced(i) == i > 1 /\ script[i].kind = "dialogue" /\ script[i - 1].kind = "voice"

\* The callback of the rule at line i has run.
HasRun(rule, i) ==
    /\ pc # "parse"
    /\ \A k \in 1..Len(todo) : todo[k] # [rule |-> rule, line |-> i]

\* The records handed out so far: the local list of start, then its result.
Emitted == IF pc = "done" THEN result ELSE choices

\* The preceding dialogue of a record, read through its reference.
PrevList(r) == heap[r.prev_dialogue]

\* The menu a choice line belongs to, and the menu before that one.
MenuOf(c) == CHOOSE m \in LinesOfKind("menu") :
                 /\ InBody(script, m, c)
                 /\ script[c].depth = script[m].depth + 1

LinesIn(list) == {list[n].line : n \in 1..Len(list)}

\* C1: previous_dialogues of every record holds only dialogue that precedes
\* the choice on its own branch: none from the body of a choice that does
\* not enclose the emitted choice.
C1_PrevOnOwnBranch ==
    (pc = "done" /\ mutated = None) =>
        \A k \in 1..Len(result) :
            \A d \in LinesIn(PrevList(result[k])) :
                /\ d < result[k].line
                /\ \A c \in LinesOfKind("choice") :
                       InBody(script, c, d) => InBody(script, c, result[k].line)

\* C4: no dialogue placed after the first menu of a choice's body is among
\* the choice's subsequent dialogues (so a body that begins with a menu
\* gives none).
C4_NextStopsAtMenu ==
    pc = "done" =>
        \A k \in 1..Len(result) :
            \A d \in LinesIn(result[k].next_dialogue) :
                /\ InBody(script, result[k].line, d)
                /\ \A m \in LinesOfKind("menu") :
                       InBody(script, result[k].line, m) => d < m

\* C5: extraction gives one record per choice line of the script, none
\* missing and none twice, with no subsequent dialogue for an empty body.
C5_OneRecordPerChoice ==
    pc \in {"done", "failed"} =>
        /\ Len(result) = Cardinality(LinesOfKind("choice"))
        /\ LinesIn(result) = LinesOfKind("choice")
        /\ \A k \in 1..Len(result) :
               ~HasBlock(script, result[k].line) => result[k].next_dialogue = <<>>

\* C6: the returned records are in ascending order of their choice lines.
C6_SortedByLine ==
    pc = "done" =>
        \A k \in 1..(Len(result) - 1) : result[k].line < result[k + 1].line

\* C6 witness: a nested menu was reduced before the menu that contains it,
\* so start collected the records out of order, and the result is returned.
C6_Witness ==
    /\ pc = "done"
    /\ \E k \in 1..(Len(choices) - 1) : choices[k].line > choices[k + 1].line
    /\ \E k \in 1..(Len(result) - 1) :
           MenuOf(result[k].line) = MenuOf(result[k + 1].line)

\* The name of the nearest label whose block encloses line j, else None.
EnclosingLabel(j) ==
    LET ls == {l \in LinesOfKind("label") : InBody(script, l, j)}
    IN  IF ls = {} THEN None
        ELSE NameAt(CHOOSE l \in ls : \A o \in ls : o <= l)

\* C7: the label of every record is the nearest enclosing label, None when
\* no label encloses the choice.
C7_LabelEncloses ==
    pc = "done" =>
        \A k \in 1..Len(result) :
            result[k].label = EnclosingLabel(result[k].line)


\* C2: the list of a record belongs to that record alone: no later step of
\* the traversal changes it, and appending to the list of one record
\* leaves the list of every other record as it was.
C2_PrevIsCopy ==
    [][\A k \in 1..Len(Emitted) :
           \A n \in 1..Len(Emitted') :
               (Emitted'[n].line = Emitted[k].line /\ mutated' # Emitted[k].line)
                   => heap'[Emitted'[n].prev_dialogue] = PrevList(Emitted[k])]_vars

\* C2 witness: two options of one menu with dialogue before it; the caller
\* appended to the list of one and the other still has its own.
C2_Witness ==
    /\ pc = "done"
    /\ \E k, n \in 1..Len(result) :
           /\ result[k].line = mutated
           /\ result[n].line # mutated
           /\ MenuOf(result[k].line) = MenuOf(result[n].line)
           /\ PrevList(result[n]) # <<>>
           /\ PrevList(result[k]) = Append(PrevList(result[n]), Appended)

\* Every Dialogue the transformer holds or has handed out.
AllDialogues ==
    {ValueOf(script, i) : i \in LinesOfKind("dialogue")}
    \cup {dialogues[n] : n \in 1..Len(dialogues)}
    \cup UNION {{Emitted[k].next_dialogue[n]
                    : n \in 1..Len(Emitted[k].next_dialogue)}
                   : k \in 1..Len(Emitted)}
    \cup UNION {{PrevList(Emitted[k])[n] : n \in 1..Len(PrevList(Emitted[k]))}
                   : k \in 1..Len(Emitted)}

WindowOf(c) ==
    LET m == MenuOf(c)
        before == {b \in LinesOfKind("menu") : b < m}
    IN  [start |-> IF before = {} THEN 1
                   ELSE CHOOSE b \in before : \A o \in before : o <= b,
         stop |-> m]

\* The choice whose body directly holds line j (labels are transparent), 0
\* if none.
OwnerChoice(j) ==
    LET cs == {c \in LinesOfKind("choice") : InBody(script, c, j)}
        ms == {m \in LinesOfKind("menu") : InBody(script, m, j)}
        c == CHOOSE x \in cs : \A o \in cs : o <= x
    IN  IF cs = {} THEN 0
        ELSE IF \E m \in ms : m > c THEN 0
        ELSE c

\* C10: a dialogue line without a voice line is a Dialogue with no voice,
\* found where a voiced one would be: in the preceding dialogue of the
\* choices that follow it, and in the subsequent dialogue of the choice
\* whose body holds it.
C10_UnvoicedIncluded ==
    (pc = "done" /\ mutated = None) =>
        \A i \in LinesOfKind("dialogue") :
            ~IsVoiced(i) =>
                /\ ValueOf(script, i) = Dialogue(i, "n", script[i].text, None)
                /\ \A k \in 1..Len(result) :
                       /\ (WindowOf(result[k].line).start < i
                               /\ i < WindowOf(result[k].line).stop)
                              => i \in LinesIn(PrevList(result[k]))
                       /\ OwnerChoice(i) = result[k].line
                              => i \in LinesIn(result[k].next_dialogue)

(***************************************************************************)
(* The normalized tree as the claims read it.                              *)
(***************************************************************************)

NodesOfKind(k) == {i \in 1..Len(ast) : ast[i].kind = k}

\* The record emitted for the choice at line c.
RecordAt(c) == CHOOSE r \in {records[k] : k \in 1..Len(records)} : r.line = c

\* The nearest choice whose body holds line j, 0 if none.
ChoiceAround(j) ==
    LET cs == {c \in NodesOfKind("choice") : InBody(ast, c, j)}
    IN  IF cs = {} THEN 0 ELSE CHOOSE c \in cs : \A o \in cs : o <= c

\* The Dialogue nodes from line i to line j whose nearest choice is c.
RECURSIVE BodyDialogues(_, _, _)
BodyDialogues(c, i, j) ==
    IF i > j THEN <<>>
    ELSE IF ast[i].kind = "dialogue" /\ ChoiceAround(i) = c
         THEN <<Dialogue(i, "n", "plain", None)>> \o BodyDialogues(c, i + 1, j)
         ELSE BodyDialogues(c, i + 1, j)

LabelAround(j) ==
    LET ls == {l \in NodesOfKind("label") : InBody(ast, l, j)}
    IN  IF ls = {} THEN None
        ELSE NameAt(CHOOSE l \in ls : \A o \in ls : o <= l)

\* Dialogue d precedes the label at line l in a scope that encloses l: every
\* choice whose body holds d holds l as well.
PrecedesLabel(d, l) ==
    /\ d < l
    /\ \A c \in NodesOfKind("choice") : InBody(ast, c, d) => InBody(ast, c, l)

GraphLinesOfKind(k) == {i \in 1..Len(glines) : glines[i].kind = k}

\* The Dialogue nodes of the graph.
GraphDialogues ==
    {graph_nodes[n].data : n \in {m \in 1..Len(graph_nodes) :
                                      graph_nodes[m].type = "dialogue"}}

\* A voice line with no dialogue line right after it.
OrphanVoice(i) ==
    /\ glines[i].kind = "voice"
    /\ i = Len(glines) \/ glines[i + 1].kind # "dialogue"

\* C11: a voice line that no dialogue line follows at once is dropped: the
\* parse still returns, and no dialogue carries its path.
C11_OrphanVoiceDropped ==
    gpc = "done" =>
        \A i \in 1..Len(glines) :
            OrphanVoice(i) => \A d \in GraphDialogues : d.voice # NameAt(i)

\* Line c lies in the block of a menu line: a shallower menu line before it
\* with no line between them as shallow as the menu.
InsideMenu(c) ==
    \E m \in GraphLinesOfKind("menu") :
        /\ m < c
        /\ \A j \in (m + 1)..c : glines[j].indent > glines[m].indent

\* C12: an option-like line outside every menu is never an extracted
\* choice.
C12_NoChoiceOutsideMenu ==
    gpc = "done" =>
        \A k \in 1..Len(contexts) : InsideMenu(contexts[k].choice.text)

(***************************************************************************)
(* The file as the claims read it.                                         *)
(***************************************************************************)

\* Line j of the file lies in the block under line h (blank lines and
\* comments do not close a block).
Under(lines, h, j) ==
    /\ h < j
    /\ \A k \in (h + 1)..j :
           lines[k].kind \in {"blank", "comment"} \/ lines[k].indent > lines[h].indent

\* The file with every unrecognised line read as a conditional header, so
\* that its body moves up to its own level.
OthersAsHeaders(lines) ==
    [k \in 1..Len(lines) |->
        IF lines[k].kind = "other" THEN [lines[k] EXCEPT !.kind = "if"]
        ELSE lines[k]]

\* The lines of the file that are neither unrecognised nor under an
\* unrecognised line.
RECURSIVE OutsideOthers(_, _)
OutsideOthers(lines, j) ==
    IF j > Len(lines) THEN <<>>
    ELSE (IF lines[j].kind = "other"
             \/ \E h \in 1..(j - 1) : lines[h].kind = "other" /\ Under(lines, h, j)
          THEN <<>> ELSE <<lines[j]>>)
         \o OutsideOthers(lines, j + 1)

\* C13: an unrecognised line is discarded and never makes the parse fail:
\* a file that parses both with the bodies of its unrecognised lines moved
\* up and with those bodies left out parses as it is.
C13_OtherNeverFails ==
    cpc = "parsed" =>
        /\ \A k \in 1..Len(cleaned) : cleaned[k].kind \in Kinds
        /\ (/\ Parses(clean_inner(OthersAsHeaders(raw), 1, <<>>))
            /\ Parses(clean_inner(OutsideOthers(raw, 1), 1, <<>>)))
               => parsed = "tree"

\* The kept lines without the place they came from.
Shape(lines) ==
    [k \in 1..Len(lines) |-> [kind |-> lines[k].kind, indent |-> lines[k].indent]]

\* C14: blank lines and comment lines do not affect the block structure:
\* the kept lines and their indentation are those of the file without its
\* blank and comment lines.
C14_BlankLinesNeutral ==
    cpc \in {"cleaned", "parsed"} =>
        Shape(cleaned) = Shape(clean_inner(Significant(raw), 1, <<>>))

\* The first statement after line h, 0 if there is none.
RECURSIVE NextStatement(_, _)
NextStatement(lines, j) ==
    IF j > Len(lines) THEN 0
    ELSE IF lines[j].kind \in {"blank", "comment"} THEN NextStatement(lines, j + 1)
    ELSE j

\* The extra indentation of the body of the conditional header at line h.
BodyExtra(lines, h) ==
    LET b == NextStatement(lines, h + 1)
    IN  IF b # 0 /\ lines[b].indent > lines[h].indent
        THEN lines[b].indent - lines[h].indent
        ELSE 0

\* The sum of the extra indentation of the conditionals hs.
RECURSIVE SumExtra(_, _)
SumExtra(lines, hs) ==
    IF hs = {} THEN 0
    ELSE LET h == CHOOSE x \in hs : TRUE
         IN  BodyExtra(lines, h) + SumExtra(lines, hs \ {h})

\* C15: no if/elif/else header is emitted, and every emitted line has its
\* indentation reduced by the extra indentation of the bodies of the
\* conditionals around it, so a line outside every conditional keeps its
\* own.
C15_ConditionalsFlattened ==
    cpc \in {"cleaned", "parsed"} =>
        /\ Len(cleaned) = Cardinality({j \in 1..Len(raw) : raw[j].kind \in Kinds})
        /\ \A k \in 1..Len(cleaned) :
               LET j == cleaned[k].from
                   around == {h \in 1..Len(raw) :
                                 raw[h].kind = "if" /\ Under(raw, h, j)}
               IN  /\ cleaned[k].kind = raw[j].kind
                   /\ cleaned[k].indent = raw[j].indent - SumExtra(raw, around)

(***************************************************************************)
(* clean_choice_for_voice (voice.py, and its copy in text.py).             *)
(*                                                                         *)
(* A choice text is a sequence of characters.  The characters no pattern   *)
(* tells apart are one letter "a"; a word that a pattern or a table knows  *)
(* as a whole ("Say", "Ugh!", the phrase of rewrites, Mr. Anatomy) is one  *)
(* element.  "bullet" is the bullet marker that the module's bullet_re     *)
(* matches, "Say" any verb of special_re.                                  *)
(***************************************************************************)

\* Longest choice text, in the units below.
MaxText == 4

\* \s
Whitespace == {" "}

\* The verbs of special_re.
ActionVerbs == {"Say"}

\* The units a text handed to voice.py is written in: "''" is a doubled
\* single quote, "[[" two opening brackets, "N-no" the key of rewrites.
VoiceUnits == {"bullet", " ", "{", "}", "(", ")", "[[", "]", "''", "Say", "a", "N-no"}

\* text.py also knows "Ugh!" (unwanted_re) and 'Mr. Anatomy' in single
\* quotes (replacements).
TextUnits == VoiceUnits \cup {"Ugh!", "'Mr'"}

\* The characters of a text written in units: a doubled quote is two
\* quote characters, the quoted name has a quote on either side.
RECURSIVE Chars(_)
Chars(units) ==
    IF units = <<>> THEN <<>>
    ELSE LET u == Head(units)
         IN  (IF u = "''" THEN <<"'", "'">>
              ELSE IF u = "'Mr'" THEN <<"'", "Mr", "'">>
              ELSE <<u>>) \o Chars(Tail(units))

\* The choice texts of at most MaxText units.
ChoiceTexts(units) ==
    {Chars(t) : t \in UNION {[1..n -> units] : n \in 0..MaxText}}

\* The end of the longest run of characters of set from position j on
\* (j - 1 if there is none).
RECURSIVE RunEnd(_, _, _)
RunEnd(t, j, set) ==
    IF j <= Len(t) /\ t[j] \in set THEN RunEnd(t, j + 1, set) ELSE j - 1

\* The first position from j on that holds character c, 0 if none does.
RECURSIVE FirstAt(_, _, _)
FirstAt(t, j, c) ==
    IF j > Len(t) THEN 0
    ELSE IF t[j] = c THEN j
    ELSE FirstAt(t, j + 1, c)

\* Where the match of a pattern that starts at position i ends, 0 if the
\* pattern does not match there.  A negated class followed by its closing
\* character runs to the first closing character and needs one character
\* or more before it.
MatchEnd(re, t, i) ==
    CASE re = "bullet_re" ->
           IF t[i] = "bullet" /\ RunEnd(t, i + 1, Whitespace) > i
           THEN RunEnd(t, i + 1, Whitespace) ELSE 0
      [] re = "formatting_re" ->
           IF t[i] = "{" /\ FirstAt(t, i + 1, "}") >= i + 2
           THEN FirstAt(t, i + 1, "}") ELSE 0
      [] re = "prefixes_re" ->
           IF t[i] = "(" /\ FirstAt(t, i + 1, ")") >= i + 2
           THEN LET j == FirstAt(t, i + 1, ")")
                IN  IF RunEnd(t, j + 1, Whitespace) > j
                    THEN RunEnd(t, j + 1, Whitespace) ELSE 0
           ELSE 0
      [] re = "actions_re" ->
           IF t[i] = "[[" /\ FirstAt(t, i + 1, "]") >= i + 2
           THEN FirstAt(t, i + 1, "]") ELSE 0
      [] re = "unwanted_re" ->
           IF t[i] \in {"Ugh!", "(", ")"} THEN i ELSE 0

\* re.sub("", t): the matches are removed from left to right.
RECURSIVE re_sub(_, _, _)
re_sub(re, t, i) ==
    IF i > Len(t) THEN <<>>
    ELSE IF MatchEnd(re, t, i) = 0 THEN <<t[i]>> \o re_sub(re, t, i + 1)
    ELSE re_sub(re, t, MatchEnd(re, t, i) + 1)

\* choice.replace("'Mr. Anatomy'", "Mr. Anatomy").
RECURSIVE replacements(_, _)
replacements(t, i) ==
    IF i > Len(t) THEN <<>>
    ELSE IF i + 2 <= Len(t) /\ SubSeq(t, i, i + 2) = <<"'", "Mr", "'">>
    THEN <<"Mr">> \o replacements(t, i + 3)
    ELSE <<t[i]>> \o replacements(t, i + 1)

\* The first position from j on where a doubled quote starts, 0 if none.
RECURSIVE QuotesAt(_, _)
QuotesAt(t, j) ==
    IF j + 1 > Len(t) THEN 0
    ELSE IF t[j] = "'" /\ t[j + 1] = "'" THEN j
    ELSE QuotesAt(t, j + 1)

\* quoted_text_re.findall(t): the contents of the spans ''(.+?)'', each
\* closed by the first doubled quote that leaves it a character.
RECURSIVE quoted_text_re_findall(_, _)
quoted_text_re_findall(t, i) ==
    IF i + 1 > Len(t) THEN <<>>
    ELSE IF t[i] = "'" /\ t[i + 1] = "'" /\ QuotesAt(t, i + 3) # 0
    THEN LET j == QuotesAt(t, i + 3)
         IN  <<SubSeq(t, i + 2, j - 1)>> \o quoted_text_re_findall(t, j + 2)
    ELSE quoted_text_re_findall(t, i + 1)

\* " ".join(parts)
RECURSIVE join(_)
join(parts) ==
    IF Len(parts) = 0 THEN <<>>
    ELSE IF Len(parts) = 1 THEN parts[1]
    ELSE parts[1] \o <<" ">> \o join(Tail(parts))

\* special_re.search(t): a verb of the list at the start, then whitespace.
special_re_search(t) ==
    Len(t) >= 2 /\ t[1] \in ActionVerbs /\ t[2] \in Whitespace

\* rewrites.get(t, t)
rewrites_get(t) == IF t = <<"N-no">> THEN <<"No">> ELSE t

\* The end of clean_choice_for_voice, the same in both modules.
spoken_text(t) ==
    IF quoted_text_re_findall(t, 1) # <<>> THEN join(quoted_text_re_findall(t, 1))
    ELSE IF special_re_search(t) THEN NoText
    ELSE IF t # <<>> THEN rewrites_get(t)
    ELSE NoText

\* The four substitutions both modules start with.
strip_spans(t) ==
    re_sub("actions_re",
           re_sub("prefixes_re",
                  re_sub("formatting_re", re_sub("bullet_re", t, 1), 1), 1), 1)

\* voice.py: clean_choice_for_voice(choice).
clean_choice_for_voice(t) == spoken_text(strip_spans(t))

\* text.py: clean_choice_for_voice(choice).
text_clean_choice_for_voice(t) ==
    spoken_text(replacements(re_sub("unwanted_re", strip_spans(t), 1), 1))

\* The function of the module that is called.
CleanBy(module, t) ==
    IF module = "voice" THEN clean_choice_for_voice(t)
    ELSE text_clean_choice_for_voice(t)

\* A module and a choice text are picked.
InitV ==
    /\ cleaner \in {"voice", "text"}
    /\ given \in ChoiceTexts(IF cleaner = "voice" THEN VoiceUnits ELSE TextUnits)
    /\ once = NoText
    /\ twice = NoText
    /\ vpc = "given"
    /\ IdleT
    /\ IdleW
    /\ IdleG
    /\ IdleC
    /\ IdleP
    /\ IdleR
    /\ IdleN
    /\ IdleD
    /\ IdleF
    /\ IdleM
    /\ IdleQ

\* clean_choice_for_voice(choice).
CleanChoice ==
    /\ vpc = "given"
    /\ once' = CleanBy(cleaner, given)
    /\ vpc' = "cleaned"
    /\ UNCHANGED <<cleaner, given, twice>>
    /\ UNCHANGED notV

\* The cleaned text is cleaned again.
CleanAgain ==
    /\ vpc = "cleaned"
    /\ once # NoText
    /\ twice' = CleanBy(cleaner, once)
    /\ vpc' = "recleaned"
    /\ UNCHANGED <<cleaner, given, once>>
    /\ UNCHANGED notV

NextV ==
    \/ CleanChoice
    \/ CleanAgain

SpecV == InitV /\ [][NextV]_vars

\* C16: clean_choice_for_voice returns None exactly when the text, after
\* the bullets, the markup, the parenthetical prefixes and the bracketed
\* action spans are stripped, has no doubled-quote span and is empty or
\* begins with an action verb and whitespace; when it has doubled-quote
\* spans the result is their contents joined in order.
C16_NullOrSpans ==
    vpc \in {"cleaned", "recleaned"} =>
        LET stripped == strip_spans(given)
            spans == quoted_text_re_findall(stripped, 1)
        IN  /\ once = NoText <=>
                   /\ spans = <<>>
                   /\ stripped = <<>> \/ special_re_search(stripped)
            /\ spans # <<>> => once = join(spans)

\* C17: cleaning the cleaned text again gives the same text.
C17_CleanIdempotent ==
    vpc = "recleaned" => twice = once

(***************************************************************************)
(* filter_spoken_lines (pipeline.py) and get_output_path (voice.py).       *)
(***************************************************************************)

\* Most choices in the list handed to filter_spoken_lines.
MaxChoices == 4

\* The raw choice texts of the list: a plain line, the same line behind a
\* bullet and in doubled quotes, an action, and another plain line.
SourceTexts ==
    {Chars(t) : t \in {<<"a">>, <<"bullet", " ", "a">>, <<"''", "a", "''">>,
                       <<"Say", " ", "a">>, <<"a", "a">>}}

\* Path | None = None
NoPath == [parent |-> "None", name |-> NoText]

\* ChoiceResult(choice=...), the fields the post-processing reads and
\* writes.
ParsedChoice(text) == [choice |-> text, clean |-> NoText, output |-> NoPath]

\* sha256(text.encode()).hexdigest(): texts that differ have digests that
\* differ.
sha256_hexdigest(text) == <<"sha256">> \o text

\* get_output_path(choice)
get_output_path(c) ==
    [parent |-> "output/voice",
     name |-> sha256_hexdigest(c.choice) \o <<".flac">>]

\* The test of the loop without the set of seen texts.
not_seen_ignored(clean, seen_texts) ==
    clean # NoText /\ clean # <<>>

\* choice.clean and choice.clean not in seen
not_seen(clean, seen_texts) ==
    clean # NoText /\ clean # <<>> /\ clean \notin seen_texts

InitP ==
    /\ NewP
    /\ ppc = "source"
    /\ IdleT
    /\ IdleW
    /\ IdleG
    /\ IdleC
    /\ IdleV
    /\ IdleR
    /\ IdleN
    /\ IdleD
    /\ IdleF
    /\ IdleM
    /\ IdleQ

\* The list has one more choice.
SourceChoice ==
    /\ ppc = "source"
    /\ Len(source) < MaxChoices
    /\ \E t \in SourceTexts : source' = Append(source, ParsedChoice(t))
    /\ UNCHANGED <<fi, seen, clean_choices, ppc>>
    /\ UNCHANGED notP

\* filter_spoken_lines(source): an empty result and an empty set.
FilterSpokenLines ==
    /\ ppc = "source"
    /\ clean_choices' = <<>>
    /\ seen' = {}
    /\ fi' = 1
    /\ ppc' = "filter"
    /\ UNCHANGED source
    /\ UNCHANGED notP

\* One turn of the loop.  The result holds the objects of the list, here
\* their positions in it.
FilterChoice ==
    /\ ppc = "filter"
    /\ fi <= Len(source)
    /\ LET clean == clean_choice_for_voice(source[fi].choice)
           cleaned_choice == [source[fi] EXCEPT !.clean = clean]
       IN  IF not_seen(clean, seen)
           THEN /\ seen' = seen \cup {clean}
                /\ source' = [source EXCEPT ![fi] =
                                 [cleaned_choice EXCEPT
                                     !.output = get_output_path(cleaned_choice)]]
                /\ clean_choices' = Append(clean_choices, fi)
           ELSE /\ source' = [source EXCEPT ![fi] = cleaned_choice]
                /\ UNCHANGED <<seen, clean_choices>>
    /\ fi' = fi + 1
    /\ UNCHANGED ppc
    /\ UNCHANGED notP

\* return clean_choices
FilterReturn ==
    /\ ppc = "filter"
    /\ fi > Len(source)
    /\ ppc' = "returned"
    /\ UNCHANGED <<source, fi, seen, clean_choices>>
    /\ UNCHANGED notP

NextP ==
    \/ SourceChoice
    \/ FilterSpokenLines
    \/ FilterChoice
    \/ FilterReturn

SpecP == InitP /\ [][NextP]_vars

\* The cleaned text of the k-th choice of the list.
CleanOf(k) == clean_choice_for_voice(source[k].choice)

\* The choices of the list that are the first with their cleaned text.
FirstSpoken ==
    {k \in 1..Len(source) :
        /\ CleanOf(k) # NoText
        /\ \A j \in 1..(k - 1) : CleanOf(j) # CleanOf(k)}

\* C18: the result of filter_spoken_lines holds, for each cleaned text that
\* is not None, exactly the first choice of the list with that cleaned
\* text, holds no choice whose cleaned text is None, and keeps the order of
\* the list.
C18_FirstOfEachKept ==
    ppc = "returned" =>
        /\ {clean_choices[k] : k \in 1..Len(clean_choices)} = FirstSpoken
        /\ \A k \in 1..Len(clean_choices) : source[clean_choices[k]].clean # NoText
        /\ \A k \in 1..(Len(clean_choices) - 1) :
               clean_choices[k] < clean_choices[k + 1]

\* A list with a choice that is not spoken and two choices with the same
\* cleaned text, the second after a kept choice with another text.
C18_Witness ==
    /\ ppc = "returned"
    /\ Len(clean_choices) >= 2
    /\ \E k \in 1..Len(source) : CleanOf(k) = NoText
    /\ \E j, k \in 1..Len(source) :
           /\ j < k
           /\ CleanOf(j) = CleanOf(k)
           /\ CleanOf(k) # NoText
           /\ \E m \in (j + 1)..(k - 1) : m \in FirstSpoken

\* C19: the output path is a function of the cleaned text: every choice of
\* the list with the cleaned text of a kept choice has the output path of
\* the kept one.
C19_PathOfCleanText ==
    ppc = "returned" =>
        \A k \in 1..Len(clean_choices) : \A j \in 1..Len(source) :
            source[j].clean = source[clean_choices[k]].clean =>
                get_output_path(source[j]) = source[clean_choices[k]].output

(***************************************************************************)
(* The whole-corpus runs: run_pipeline (pipeline.py) and                   *)
(* extract_all_choices (tts/extractor.py).                                 *)
(***************************************************************************)

\* Most script files of the game.
MaxFiles == 3

\* Most choices of one script file.
MaxFileChoices == 2

\* A script file: whether parsing it or extracting its choices raises, and
\* the number of choices it has when it does not.
ScriptFiles == [raises : BOOLEAN, choices : 1..MaxFileChoices]

\* The choice records of the k-th file.
ChoicesOfFile(k, file) == [n \in 1..file.choices |-> [file |-> k, choice |-> n]]

InitR ==
    /\ NewR
    /\ rpc = "files"
    /\ epc = "files"
    /\ IdleT
    /\ IdleW
    /\ IdleG
    /\ IdleC
    /\ IdleV
    /\ IdleP
    /\ IdleN
    /\ IdleD
    /\ IdleF
    /\ IdleM
    /\ IdleQ

\* walk_script_files() yields one more file.
ScriptFile ==
    /\ rpc = "files"
    /\ epc = "files"
    /\ Len(files) < MaxFiles
    /\ \E f \in ScriptFiles : files' = Append(files, f)
    /\ UNCHANGED <<ri, raw_choices, rpc, ei, all_choices, epc>>
    /\ UNCHANGED notR

\* run_pipeline(): raw_choices = ChoiceResultList(choices=[]).
RunPipeline ==
    /\ rpc = "files"
    /\ raw_choices' = <<>>
    /\ ri' = 1
    /\ rpc' = "loop"
    /\ UNCHANGED <<files, ei, all_choices, epc>>
    /\ UNCHANGED notR

\* One turn of the loop of run_pipeline: parse_script and extract_choices
\* are called outside any try, so what they raise leaves run_pipeline.
RunFile ==
    /\ rpc = "loop"
    /\ ri <= Len(files)
    /\ IF files[ri].raises
       THEN /\ rpc' = "raised"
            /\ UNCHANGED <<ri, raw_choices>>
       ELSE /\ raw_choices' = raw_choices \o ChoicesOfFile(ri, files[ri])
            /\ ri' = ri + 1
            /\ UNCHANGED rpc
    /\ UNCHANGED <<files, ei, all_choices, epc>>
    /\ UNCHANGED notR

\* The loop of run_pipeline is over: the choices are counted and written.
RunExtracted ==
    /\ rpc = "loop"
    /\ ri > Len(files)
    /\ rpc' = "extracted"
    /\ UNCHANGED <<files, ri, raw_choices, ei, all_choices, epc>>
    /\ UNCHANGED notR

\* extract_all_choices(): all_choices = [].
ExtractAllChoices ==
    /\ epc = "files"
    /\ all_choices' = <<>>
    /\ ei' = 1
    /\ epc' = "loop"
    /\ UNCHANGED <<files, ri, raw_choices, rpc>>
    /\ UNCHANGED notR

\* One turn of the loop of extract_all_choices: the exception of a file is
\* printed and the loop goes on.
ExtractFile ==
    /\ epc = "loop"
    /\ ei <= Len(files)
    /\ all_choices' = IF files[ei].raises THEN all_choices
                      ELSE all_choices \o ChoicesOfFile(ei, files[ei])
    /\ ei' = ei + 1
    /\ UNCHANGED <<files, ri, raw_choices, rpc, epc>>
    /\ UNCHANGED notR

\* return all_choices
ExtractReturn ==
    /\ epc = "loop"
    /\ ei > Len(files)
    /\ epc' = "returned"
    /\ UNCHANGED <<files, ri, raw_choices, rpc, ei, all_choices>>
    /\ UNCHANGED notR

NextR ==
    \/ ScriptFile
    \/ RunPipeline
    \/ RunFile
    \/ RunExtracted
    \/ ExtractAllChoices
    \/ ExtractFile
    \/ ExtractReturn

SpecR == InitR /\ [][NextR]_vars

\* The choices of the files from the k-th on that do not raise, in order.
RECURSIVE ChoicesOfSound(_)
ChoicesOfSound(k) ==
    IF k > Len(files) THEN <<>>
    ELSE (IF files[k].raises THEN <<>> ELSE ChoicesOfFile(k, files[k]))
         \o ChoicesOfSound(k + 1)

\* C20: a file that raises does not abort a whole-corpus run: run_pipeline
\* and extract_all_choices end with the choices of all the files that do
\* not raise, and with no choice of a file that raises.
C20_FileFailureTolerated ==
    /\ rpc \in {"raised", "extracted"} =>
           rpc = "extracted" /\ raw_choices = ChoicesOfSound(1)
    /\ epc = "returned" => all_choices = ChoicesOfSound(1)

(***************************************************************************)
(* find_labels_and_jumps (utils/navigation.py) over the lines of the game  *)
(* scripts.                                                                *)
(***************************************************************************)

\* Most lines of the scripts.
MaxNavLines == 4

\* A line: one that label_re matches, one that jump_re matches, or another.
NavLines ==
    [kind : {"label", "jump"}, name : {"a", "b"}]
        \cup {[kind |-> "other", name |-> "a"]}

\* The dict labels after the first loop: the last line of each label name.
labels_of(lines) ==
    {[name |-> lines[i].name, lineno |-> i] :
        i \in {j \in 1..Len(lines) :
                  /\ lines[j].kind = "label"
                  /\ \A k \in (j + 1)..Len(lines) :
                         ~(lines[k].kind = "label" /\ lines[k].name = lines[j].name)}}

InitN ==
    /\ NewN
    /\ npc = "files"
    /\ IdleT
    /\ IdleW
    /\ IdleG
    /\ IdleC
    /\ IdleV
    /\ IdleP
    /\ IdleR
    /\ IdleD
    /\ IdleF
    /\ IdleM
    /\ IdleQ

\* The scripts have one more line.
NavLine ==
    /\ npc = "files"
    /\ Len(nlines) < MaxNavLines
    /\ \E l \in NavLines : nlines' = Append(nlines, l)
    /\ UNCHANGED <<nlabels, ni, src_label, jumps, npc>>
    /\ UNCHANGED notN

\* The first loop: all labels are collected.
CollectLabels ==
    /\ npc = "files"
    /\ nlabels' = labels_of(nlines)
    /\ ni' = 1
    /\ src_label' = None
    /\ npc' = "jumps"
    /\ UNCHANGED <<nlines, jumps>>
    /\ UNCHANGED notN

\* One line of the second loop.  labels[jump.group(1)] raises KeyError when
\* the target is no key of labels, and the generator ends with it.
FindJump ==
    /\ npc = "jumps"
    /\ ni <= Len(nlines)
    /\ LET l == nlines[ni]
           at_label == IF l.kind = "label" THEN l.name ELSE src_label
       IN  /\ src_label' = at_label
           /\ IF l.kind # "jump"
              THEN UNCHANGED <<jumps, npc>> /\ ni' = ni + 1
              ELSE IF \E d \in nlabels : d.name = l.name
              THEN /\ jumps' = Append(jumps,
                        [src_line |-> ni,
                         dst_line |-> (CHOOSE d \in nlabels : d.name = l.name).lineno,
                         src_label |-> at_label,
                         dst_label |-> l.name])
                   /\ ni' = ni + 1
                   /\ UNCHANGED npc
              ELSE /\ npc' = "raised"
                   /\ UNCHANGED <<jumps, ni>>
    /\ UNCHANGED <<nlines, nlabels>>
    /\ UNCHANGED notN

\* The lines are exhausted.
JumpsDone ==
    /\ npc = "jumps"
    /\ ni > Len(nlines)
    /\ npc' = "done"
    /\ UNCHANGED <<nlines, nlabels, ni, src_label, jumps>>
    /\ UNCHANGED notN

NextN ==
    \/ NavLine
    \/ CollectLabels
    \/ FindJump
    \/ JumpsDone

SpecN == InitN /\ [][NextN]_vars

\* The lines of the jumps whose target is a label of the scripts.
DefinedJumps ==
    {i \in 1..Len(nlines) :
        /\ nlines[i].kind = "jump"
        /\ \E j \in 1..Len(nlines) :
               nlines[j].kind = "label" /\ nlines[j].name = nlines[i].name}

\* C21: a jump to a label that no script defines does not end
\* find_labels_and_jumps: it ends normally and has reported exactly the
\* jumps whose target is defined.
C21_UndefinedJumpSkipped ==
    npc \in {"raised", "done"} =>
        /\ npc = "done"
        /\ {jumps[k].src_line : k \in 1..Len(jumps)} = DefinedJumps

(***************************************************************************)
(* The review stores: TTSDatabase (tts/database.py), the annotations table *)
(* (annotate.py), the ab_results table (ab_test.py), and the labeling app  *)
(* TTSLabelApp (tts/cli.py) on top of TTSDatabase.                         *)
(***************************************************************************)

\* Most operations on the stores in one run; datetime.now() is their count.
MaxClock == 5

\* The content hashes of the choices, which name the audio files.
Hashes == {"h1", "h2"}

\* The directories that hold audio files.
TtsDirs == {"d1", "d2"}

\* The audio files that can be on disk: the files of directory d1 in two
\* versions, and a copy of one of them in directory d2.
Flacs ==
    [dir : {"d1"}, stem : Hashes, content : {1, 2}]
        \cup {[dir |-> "d2", stem |-> "h1", content |-> 1]}

Statuses == {"pending", "approved", "rejected"}

\* What self.db["choices"].get(choice_hash) does when no row has the key:
\* sqlite_utils raises NotFoundError; the callers test the result as if it
\* were None.
MissingRow == {"NotFoundError", "None"}

\* All orders in which glob can yield the elements of set.
Orders(set) ==
    {o \in [1..Cardinality(set) -> set] :
        \A i, j \in 1..Cardinality(set) : i # j => o[i] # o[j]}

\* A lookup that finds every choice.
choice_always_found(choice_hash, keys) == FALSE

\* if not choice: no row of the choices table has the hash as its key.
choice_missing(choice_hash, keys) == choice_hash \notin keys

\* The loop of scan_tts_directory over flac_files, on the rows of
\* tts_files.
RECURSIVE scan_files(_, _, _, _, _)
scan_files(rows, dir, flac_files, now, missing) ==
    IF flac_files = <<>> THEN rows
    ELSE LET choice_hash == Head(flac_files)
             file_path == [dir |-> dir, stem |-> choice_hash]
             flac == CHOOSE f \in disk : f.dir = dir /\ f.stem = choice_hash
             file_hash == sha256_hexdigest(<<flac.content>>)
             existing_files ==
                 {i \in 1..Len(rows) :
                     /\ rows[i].choice_hash = choice_hash
                     /\ rows[i].file_path = file_path}
             first == CHOOSE i \in existing_files : \A j \in existing_files : i <= j
         IN  IF choice_missing(choice_hash, choices_tbl)
             THEN IF missing = "NotFoundError" THEN rows
                  ELSE scan_files(rows, dir, Tail(flac_files), now, missing)
             ELSE IF existing_files # {}
             THEN scan_files(
                      IF rows[first].file_hash # file_hash
                      THEN [rows EXCEPT ![first].file_hash = file_hash,
                                        ![first].status = "pending",
                                        ![first].updated_at = now]
                      ELSE rows,
                      dir, Tail(flac_files), now, missing)
             ELSE scan_files(
                      Append(rows, [id |-> Len(rows) + 1,
                                    choice_hash |-> choice_hash,
                                    file_path |-> file_path,
                                    file_hash |-> file_hash,
                                    status |-> "pending",
                                    updated_at |-> now]),
                      dir, Tail(flac_files), now, missing)

\* The rows of tts_files with status pending.
pending_files(rows) ==
    {i \in 1..Len(rows) : rows[i].status = "pending"}

\* get_next_pending_file(): the id of the returned row, or None.  The first
\* pending row by updated_at is taken; rows with the same updated_at come
\* in the order of their id.
get_next_pending_file(rows, keys) ==
    IF pending_files(rows) = {} THEN None
    ELSE LET first == CHOOSE i \in pending_files(rows) : \A j \in pending_files(rows) :
                          \/ rows[i].updated_at < rows[j].updated_at
                          \/ /\ rows[i].updated_at = rows[j].updated_at
                             /\ i <= j
         IN  IF choice_missing(rows[first].choice_hash, keys) THEN None ELSE first

\* insert_all(rows, pk="filename") of pending rows for the file names:
\* a name that is already a key makes the insert fail as a whole, or is
\* passed over with ignore=True.
insert_all(table, names, ignore) ==
    LET taken == {r.filename : r \in table}
        fresh == {names[k] : k \in 1..Len(names)} \ taken
        clash == \/ \E k \in 1..Len(names) : names[k] \in taken
                 \/ \E j, k \in 1..Len(names) : j # k /\ names[j] = names[k]
    IN  IF clash /\ ~ignore THEN table
        ELSE table \cup {[filename |-> n, status |-> "pending"] : n \in fresh}

\* upsert(row, pk="filename")
upsert(table, row) ==
    {r \in table : r.filename # row.filename} \cup {row}

\* The positions of the labeling app once it is mounted: "label" after
\* on_mount and after approve or reject, "next" after action_next.
Mounted == {"label", "next"}

InitD ==
    /\ NewD
    /\ dpc = "setup"
    /\ IdleT
    /\ IdleW
    /\ IdleG
    /\ IdleC
    /\ IdleV
    /\ IdleP
    /\ IdleR
    /\ IdleN
    /\ IdleF
    /\ IdleM
    /\ IdleQ

\* An audio file is written to a directory, or written again.
WriteFlac ==
    /\ dpc \in {"setup"} \cup Mounted
    /\ \E flac \in Flacs \ disk :
          disk' = {f \in disk : ~(f.dir = flac.dir /\ f.stem = flac.stem)}
                      \cup {flac}
    /\ UNCHANGED <<choices_tbl, tts_files, status_tbl, clock, current_file, dpc>>
    /\ UNCHANGED notD

\* import_choices(choices)
ImportChoices ==
    /\ dpc \in {"setup"} \cup Mounted
    /\ clock < MaxClock
    /\ \E hs \in SUBSET Hashes : choices_tbl' = choices_tbl \cup hs
    /\ clock' = clock + 1
    /\ UNCHANGED <<tts_files, status_tbl, disk, current_file, dpc>>
    /\ UNCHANGED notD

\* scan_tts_directory(tts_dir)
ScanTtsDirectory(tts_dir) ==
    /\ dpc \in {"setup"} \cup Mounted
    /\ clock < MaxClock
    /\ \E flac_files \in Orders({f.stem : f \in {g \in disk : g.dir = tts_dir}}),
          missing \in MissingRow :
          tts_files' = scan_files(tts_files, tts_dir, flac_files, clock + 1, missing)
    /\ clock' = clock + 1
    /\ UNCHANGED <<choices_tbl, status_tbl, disk, current_file, dpc>>
    /\ UNCHANGED notD

\* update_file_status(file_id, status)
UpdateFileStatus ==
    /\ dpc \in {"setup"} \cup Mounted
    /\ clock < MaxClock
    /\ \E file_id \in 1..Len(tts_files), status \in Statuses :
          tts_files' = [tts_files EXCEPT ![file_id].status = status,
                                         ![file_id].updated_at = clock + 1]
    /\ clock' = clock + 1
    /\ UNCHANGED <<choices_tbl, status_tbl, disk, current_file, dpc>>
    /\ UNCHANGED notD

\* setup_db() and setup_ab_db(): the rows of the choices that the table
\* does not have yet are inserted; only initialize_ab_db_with_choices
\* inserts with ignore=True.
SetupDb ==
    /\ dpc = "annotate"
    /\ clock < MaxClock
    /\ \E t \in DOMAIN status_tbl, names \in UNION {[1..n -> Hashes] : n \in 0..2} :
          LET existing_filenames == {r.filename : r \in status_tbl[t]}
              new_rows == SelectSeq(names, LAMBDA n : n \notin existing_filenames)
          IN  status_tbl' = [status_tbl EXCEPT ![t] =
                  insert_all(@, new_rows, t = "ab_results" /\ @ = {})]
    /\ clock' = clock + 1
    /\ UNCHANGED <<choices_tbl, tts_files, disk, current_file, dpc>>
    /\ UNCHANGED notD

\* save_annotation(db, filename, status) and save_ab_result(db, filename,
\* preference).
SaveStatus ==
    /\ dpc = "annotate"
    /\ clock < MaxClock
    /\ \E t \in DOMAIN status_tbl, n \in Hashes, status \in Statuses :
          status_tbl' = [status_tbl EXCEPT ![t] =
                            upsert(@, [filename |-> n, status |-> status])]
    /\ clock' = clock + 1
    /\ UNCHANGED <<choices_tbl, tts_files, disk, current_file, dpc>>
    /\ UNCHANGED notD

\* TTSLabelApp.on_mount(): load_next_file().
OnMount ==
    /\ dpc = "setup"
    /\ dpc' = "label"
    /\ current_file' = get_next_pending_file(tts_files, choices_tbl)
    /\ UNCHANGED <<choices_tbl, tts_files, status_tbl, disk, clock>>
    /\ UNCHANGED notD

\* TTSLabelApp.action_next(): load_next_file().  dpc records that this
\* handler was the last one to run.
ActionNext ==
    /\ dpc \in Mounted
    /\ dpc' = "next"
    /\ current_file' = get_next_pending_file(tts_files, choices_tbl)
    /\ UNCHANGED <<choices_tbl, tts_files, status_tbl, disk, clock>>
    /\ UNCHANGED notD

\* TTSLabelApp.action_approve() and action_reject(): update_file_status,
\* then load_next_file().
ActionJudge ==
    /\ dpc \in Mounted
    /\ dpc' = "label"
    /\ clock < MaxClock
    /\ current_file # None
    /\ \E status \in {"approved", "rejected"} :
          tts_files' = [tts_files EXCEPT ![current_file].status = status,
                                         ![current_file].updated_at = clock + 1]
    /\ current_file' = get_next_pending_file(tts_files', choices_tbl)
    /\ clock' = clock + 1
    /\ UNCHANGED <<choices_tbl, status_tbl, disk>>
    /\ UNCHANGED notD

NextD ==
    \/ WriteFlac
    \/ ImportChoices
    \/ \E tts_dir \in TtsDirs : ScanTtsDirectory(tts_dir)
    \/ UpdateFileStatus
    \/ OnMount
    \/ ActionNext
    \/ ActionJudge

SpecD == InitD /\ [][NextD]_vars

\* The annotation and A/B tools on their tables.
InitA ==
    /\ NewD
    /\ dpc = "annotate"
    /\ IdleT
    /\ IdleW
    /\ IdleG
    /\ IdleC
    /\ IdleV
    /\ IdleP
    /\ IdleR
    /\ IdleN
    /\ IdleF
    /\ IdleM
    /\ IdleQ

NextA ==
    \/ SetupDb
    \/ SaveStatus

SpecA == InitA /\ [][NextA]_vars

\* C22: every status table holds at most one row per content hash: the
\* annotations and the ab_results table one per file name, tts_files one
\* per choice_hash.
C22_OneRowPerHash ==
    /\ \A t \in DOMAIN status_tbl : \A r1, r2 \in status_tbl[t] :
           r1.filename = r2.filename => r1 = r2
    /\ \A i, j \in 1..Len(tts_files) :
           tts_files[i].choice_hash = tts_files[j].choice_hash => i = j

\* The rows of tts_files for the files that directory dir still holds.
ScannedBefore(dir) ==
    {i \in 1..Len(tts_files) :
        /\ tts_files[i].file_path.dir = dir
        /\ \E f \in disk : f.dir = dir /\ f.stem = tts_files[i].file_path.stem}

\* The hash of the content that the file of row i has now.
HashOnDisk(i) ==
    sha256_hexdigest(<<(CHOOSE f \in disk :
                           /\ f.dir = tts_files[i].file_path.dir
                           /\ f.stem = tts_files[i].file_path.stem).content>>)

\* C26: a scan of a directory that was scanned before leaves the row of a
\* file with an unchanged content hash as it is and adds no row for it, and
\* sets the row of a file whose content hash differs from the stored one to
\* pending with the new hash.
C26_RescanKeepsStatus ==
    [][\A dir \in TtsDirs : ScanTtsDirectory(dir) =>
          \A i \in ScannedBefore(dir) :
              IF tts_files[i].file_hash = HashOnDisk(i)
              THEN /\ tts_files'[i] = tts_files[i]
                   /\ \A j \in 1..Len(tts_files') :
                          tts_files'[j].file_path = tts_files[i].file_path => j = i
              ELSE /\ tts_files'[i].status = "pending"
                   /\ tts_files'[i].file_hash = HashOnDisk(i)]_vars


\* C27: 'next' changes no status, and with at least two pending files the
\* file shown after action_next is a pending file other than the one that
\* was shown before it.
C27_NextShowsAnotherFile ==
    [][ActionNext =>
          /\ tts_files' = tts_files
          /\ (current_file # None /\ Cardinality(pending_files(tts_files)) >= 2)
                 => (/\ current_file' \in pending_files(tts_files')
                     /\ current_file' # current_file)]_vars

\* C30: every row of tts_files has a choice_hash that is a key of the
\* choices table, so that get_next_pending_file returns None only when no
\* row is pending.
C30_RowsReferenceChoices ==
    /\ \A i \in 1..Len(tts_files) : tts_files[i].choice_hash \in choices_tbl
    /\ get_next_pending_file(tts_files, choices_tbl) = None
          => pending_files(tts_files) = {}

\* The labeling app has worked through two recorded files: none is pending
\* and no file is shown.
C30_Witness ==
    /\ dpc \in Mounted
    /\ Len(tts_files) >= 2
    /\ pending_files(tts_files) = {}
    /\ current_file = None

(***************************************************************************)
(* The indentation stacks of clean_script (parser.py) and of               *)
(* RenpyScriptGraph.parse_script (choices.py).                             *)
(***************************************************************************)

\* A file goes through clean_script, or its kept lines go through
\* parse_script.
InitS == InitC \/ InitG

NextS == NextC \/ NextG

SpecS == InitS /\ [][NextS]_vars

\* The stack of clean_inner when it has handled the lines up to line i:
\* popped for the line's indent, then pushed with the line's block if the
\* line is an if/elif/else with a deeper line after it.
RECURSIVE control_stack(_, _)
control_stack(lines, i) ==
    IF i = 0 THEN <<>>
    ELSE LET current_indent == lines[i].indent
             stack == PopControl(control_stack(lines, i - 1), current_indent)
             j == NextNonEmpty(lines, i + 1)
             removal == IF j # 0 /\ lines[j].indent > current_indent
                        THEN lines[j].indent - current_indent
                        ELSE 0
         IN  IF lines[i].kind = "if" /\ removal > 0
             THEN Append(stack, <<current_indent, removal>>)
             ELSE stack

\* The indents of a stack grow strictly from the bottom to the top.
StrictlyIncreasing(indents) ==
    \A k \in 1..(Len(indents) - 1) : indents[k] < indents[k + 1]

\* The indents of the control blocks and of the branches.
ControlIndents(stack) == [k \in 1..Len(stack) |-> stack[k][1]]
BranchIndents(stack) == [k \in 1..Len(stack) |-> stack[k][2]]

\* C23: the indents of an indentation stack grow strictly from the bottom
\* to the top, and every entry that stays open for a line has an indent
\* strictly less than the line's.  For clean_script this is said of the
\* stack after each line of the file; for parse_script of the branch stack
\* after each line of the scan.
C23_StacksStrictlyIncreasing ==
    /\ cpc = "cleaned" =>
          \A i \in 1..Len(raw) :
              LET open == PopControl(control_stack(raw, i - 1), raw[i].indent)
              IN  /\ StrictlyIncreasing(ControlIndents(control_stack(raw, i)))
                  /\ \A k \in 1..Len(open) : open[k][1] < raw[i].indent
    /\ gpc \in {"scan", "done"} =>
          /\ StrictlyIncreasing(BranchIndents(branch_stack))
          /\ gi > 1 =>
                \A k \in 1..Len(branch_stack) :
                    \/ branch_stack[k][2] < glines[gi - 1].indent
                    \/ /\ k = Len(branch_stack)
                       /\ glines[gi - 1].kind = "choice"
                       /\ branch_stack[k][2] = glines[gi - 1].indent

\* A file with an if block inside an if block, both closed by a later line.
C23_Witness ==
    /\ cpc = "cleaned"
    /\ \E i \in 1..(Len(raw) - 1) :
          /\ Len(control_stack(raw, i)) = 2
          /\ control_stack(raw, i + 1) = <<>>

\* The node made for line i of the kept lines: every line but a voice line
\* takes the next node id.
NodeOfLine(i) == Cardinality({j \in 1..i : glines[j].kind # "voice"})

\* The menu line whose block directly encloses line c: the last of the menu
\* lines that have c in their block.
EnclosingMenu(c) ==
    CHOOSE m \in GraphLinesOfKind("menu") :
        /\ m < c
        /\ \A j \in (m + 1)..c : glines[j].indent > glines[m].indent
        /\ \A n \in GraphLinesOfKind("menu") :
               (n < c /\ \A j \in (n + 1)..c : glines[j].indent > glines[n].indent)
                  => n <= m

\* The menu nodes with an edge to node n.
MenusInto(n) ==
    {graph_edges[e][1] : e \in {k \in 1..Len(graph_edges) :
                                   /\ graph_edges[k][2] = n
                                   /\ graph_nodes[graph_edges[k][1]].type = "menu"}}

\* C24: the menu edge of every choice node comes from the menu node whose
\* block directly encloses the choice, also when a nested menu has closed
\* before the choice.
C24_EdgeFromEnclosingMenu ==
    gpc = "done" =>
        \A c \in GraphLinesOfKind("choice") :
            InsideMenu(c) =>
                MenusInto(NodeOfLine(c)) = {NodeOfLine(EnclosingMenu(c))}

(***************************************************************************)
(* The export of a choice's context (extract_choices_from_file of          *)
(* tts/extractor.py, export_to_specific_json of choices.py): the dialogues *)
(* found by get_context_before or get_context_after, in the order of the   *)
(* search, are sorted by node_id, filtered and cut to three.               *)
(***************************************************************************)

\* Largest number get_next_node_id has reached.
MaxNodeId == 10

\* Most dialogues found on one side of a choice.
MaxContext == 4

\* The decimal digits of a number, as str() writes them.
RECURSIVE Digits(_)
Digits(n) == IF n < 10 THEN <<n>> ELSE Digits(n \div 10) \o <<n % 10>>

\* get_next_node_id: f"node_{self.current_node_id}".
get_next_node_id(n) == [prefix |-> "node_", digits |-> Digits(n)]

\* Python's a < b on two node ids: the strings are compared character by
\* character, and a proper prefix comes first.
str_lt(a, b) ==
    \E k \in 1..(Len(b.digits)) :
        /\ \A j \in 1..(k - 1) : j <= Len(a.digits) /\ a.digits[j] = b.digits[j]
        /\ \/ k > Len(a.digits)
           \/ a.digits[k] < b.digits[k]

\* sorted(context, key=lambda d: d.node_id)
RECURSIVE sorted_by_node_id(_)
sorted_by_node_id(context) ==
    IF Len(context) = 0 THEN <<>>
    ELSE LET d == Head(context)
             rest == sorted_by_node_id(Tail(context))
             lower == SelectSeq(rest, LAMBDA e : str_lt(e.node_id, d.node_id))
             upper == SelectSeq(rest, LAMBDA e : ~str_lt(e.node_id, d.node_id))
         IN  lower \o <<d>> \o upper

\* not (d.text and (d.text.startswith("Note: You can skip") or "{fast}" in
\* d.text))
not_skipped(context) == SelectSeq(context, LAMBDA d : d.text # "fast")

\* context_before[-3:] and context_after[:3]
last_three(context) ==
    IF Len(context) > 3 THEN SubSeq(context, Len(context) - 2, Len(context))
    ELSE context

first_three(context) ==
    IF Len(context) > 3 THEN SubSeq(context, 1, 3) ELSE context

\* The dictionaries of formatted_context_before or formatted_context_after.
FormatContext(context) ==
    [k \in 1..Len(context) |->
        [text |-> context[k].text, node_id |-> context[k].node_id]]

InitF ==
    /\ side \in {"before", "after"}
    /\ hits = <<>>
    /\ formatted = <<>>
    /\ fpc = "search"
    /\ IdleT
    /\ IdleW
    /\ IdleG
    /\ IdleC
    /\ IdleV
    /\ IdleP
    /\ IdleR
    /\ IdleN
    /\ IdleD
    /\ IdleM
    /\ IdleQ

\* get_context_before or get_context_after comes to one more dialogue node
\* of the graph.
FoundDialogue ==
    /\ fpc = "search"
    /\ Len(hits) < MaxContext
    /\ \E n \in 1..MaxNodeId, text \in Texts :
          /\ \A k \in 1..Len(hits) : hits[k].n # n
          /\ hits' = Append(hits, [n |-> n, text |-> text,
                                     node_id |-> get_next_node_id(n)])
    /\ UNCHANGED <<side, formatted, fpc>>
    /\ UNCHANGED notF

\* extract_choices_from_file: sorted, then filtered, then cut to three.
ExtractContext ==
    /\ fpc = "search"
    /\ LET context == not_skipped(sorted_by_node_id(hits))
       IN  formatted' = FormatContext(IF side = "before" THEN last_three(context)
                                      ELSE first_three(context))
    /\ fpc' = "extracted"
    /\ UNCHANGED <<side, hits>>
    /\ UNCHANGED notF

\* export_to_specific_json: filtered, then sorted, then cut to three.
ExportContext ==
    /\ fpc = "search"
    /\ LET context == sorted_by_node_id(not_skipped(hits))
       IN  formatted' = FormatContext(IF side = "before" THEN last_three(context)
                                      ELSE first_three(context))
    /\ fpc' = "exported"
    /\ UNCHANGED <<side, hits>>
    /\ UNCHANGED notF

NextF ==
    \/ FoundDialogue
    \/ ExtractContext
    \/ ExportContext

SpecF == InitF /\ [][NextF]_vars

\* The number that get_next_node_id gave a formatted entry.
CreatedAs(entry) ==
    (CHOOSE d \in {hits[k] : k \in 1..Len(hits)} : d.node_id = entry.node_id).n

\* The numbers of the found dialogues that are not filtered out.
KeptNumbers == {hits[k].n : k \in {j \in 1..Len(hits) : hits[j].text # "fast"}}

\* C25: the exported context is in source order, the order in which the
\* nodes were created, and it holds the up to three kept dialogues nearest
\* to the choice: the last ones before it, the first ones after it.
C25_ContextInSourceOrder ==
    fpc \in {"extracted", "exported"} =>
        LET numbers == [k \in 1..Len(formatted) |-> CreatedAs(formatted[k])]
            others == KeptNumbers \ {numbers[k] : k \in 1..Len(numbers)}
        IN  /\ \A k \in 1..(Len(numbers) - 1) : numbers[k] < numbers[k + 1]
            /\ Len(numbers) = IF Cardinality(KeptNumbers) > 3 THEN 3
                              ELSE Cardinality(KeptNumbers)
            /\ \A k \in 1..Len(numbers) : \A o \in others :
                   IF side = "before" THEN o < numbers[k] ELSE numbers[k] < o

(***************************************************************************)
(* annotate.SoundPlayer (src/src/princess/annotate.py): the player thread  *)
(* takes files from the playlist and plays them on the mixer, while the    *)
(* main thread calls play_audio.  Every read and write of an attribute,    *)
(* every queue operation and every mixer call is a step of its own.        *)
(***************************************************************************)

\* Most calls of play_audio.
MaxCalls == 3

\* The sound files.
Sounds == {"a.flac", "b.flac"}

InitM ==
    /\ NewM
    /\ spc = "get"
    /\ apc = "ready"
    /\ IdleT
    /\ IdleW
    /\ IdleG
    /\ IdleC
    /\ IdleV
    /\ IdleP
    /\ IdleR
    /\ IdleN
    /\ IdleD
    /\ IdleF
    /\ IdleQ

\* _player_thread: self.current_file = self.playlist.get(block=False), when
\* the playlist is not empty.
ThreadGet ==
    /\ spc = "get"
    /\ Len(playlist) > 0
    /\ sound_file' = Head(playlist)
    /\ playlist' = Tail(playlist)
    /\ spc' = "mark"
    /\ UNCHANGED <<is_playing, music, audio_path, calls, apc>>
    /\ UNCHANGED notM

\* _player_thread: self.is_playing = True.
ThreadMark ==
    /\ spc = "mark"
    /\ is_playing' = TRUE
    /\ spc' = "play"
    /\ UNCHANGED <<playlist, sound_file, music, audio_path, calls, apc>>
    /\ UNCHANGED notM

\* _player_thread: pygame.mixer.music.load(self.current_file) and play().
ThreadPlay ==
    /\ spc = "play"
    /\ music' = sound_file
    /\ spc' = "wait"
    /\ UNCHANGED <<playlist, sound_file, is_playing, audio_path, calls, apc>>
    /\ UNCHANGED notM

\* _player_thread: get_busy() is false, self.is_playing = False and
\* task_done().
ThreadDone ==
    /\ spc = "wait"
    /\ music = NoFile
    /\ is_playing' = FALSE
    /\ spc' = "get"
    /\ UNCHANGED <<playlist, sound_file, music, audio_path, calls, apc>>
    /\ UNCHANGED notM

\* The mixer comes to the end of the file it plays.
MusicEnds ==
    /\ spc # "idle"
    /\ music # NoFile
    /\ music' = NoFile
    /\ UNCHANGED <<playlist, sound_file, is_playing, spc, audio_path, calls, apc>>
    /\ UNCHANGED notM

\* play_audio(audio_path) is called.
PlayAudio ==
    /\ apc = "ready"
    /\ calls < MaxCalls
    /\ \E path \in Sounds : audio_path' = path
    /\ calls' = calls + 1
    /\ apc' = "stop"
    /\ UNCHANGED <<playlist, sound_file, is_playing, music, spc>>
    /\ UNCHANGED notM

\* clear() calls stop(): if self.is_playing.
StopTest ==
    /\ apc = "stop"
    /\ apc' = IF is_playing THEN "music_stop" ELSE "drain"
    /\ UNCHANGED <<playlist, sound_file, is_playing, music, spc, audio_path, calls>>
    /\ UNCHANGED notM

\* stop(): pygame.mixer.music.stop().
MusicStop ==
    /\ apc = "music_stop"
    /\ music' = NoFile
    /\ apc' = "unmark"
    /\ UNCHANGED <<playlist, sound_file, is_playing, spc, audio_path, calls>>
    /\ UNCHANGED notM

\* stop(): self.is_playing = False.
StopUnmark ==
    /\ apc = "unmark"
    /\ is_playing' = FALSE
    /\ apc' = "drain"
    /\ UNCHANGED <<playlist, sound_file, music, spc, audio_path, calls>>
    /\ UNCHANGED notM

\* clear(): one turn of "while not self.playlist.empty()", which takes an
\* entry or leaves the loop.
ClearDrain ==
    /\ apc = "drain"
    /\ IF Len(playlist) > 0
       THEN playlist' = Tail(playlist) /\ apc' = "drain"
       ELSE playlist' = playlist /\ apc' = "queue"
    /\ UNCHANGED <<sound_file, is_playing, music, spc, audio_path, calls>>
    /\ UNCHANGED notM

\* sound_player.queue(audio_path); the player thread is alive.
Queue ==
    /\ apc = "queue"
    /\ playlist' = Append(playlist, audio_path)
    /\ apc' = "ready"
    /\ UNCHANGED <<sound_file, is_playing, music, spc, audio_path, calls>>
    /\ UNCHANGED notM

NextM ==
    \/ ThreadGet
    \/ ThreadMark
    \/ ThreadPlay
    \/ ThreadDone
    \/ MusicEnds
    \/ PlayAudio
    \/ StopTest
    \/ MusicStop
    \/ StopUnmark
    \/ ClearDrain
    \/ Queue

SpecM == InitM /\ [][NextM]_vars

\* C28: when play_audio(x) has returned, nothing that was queued before it
\* plays: the mixer is silent or plays x.
C28_OnlyLastFilePlays ==
    (apc = "ready" /\ audio_path # NoFile) => music \in {NoFile, audio_path}

(***************************************************************************)
(* The playback of a choice with its context in the labeling app           *)
(* (src/src/princess/tts/cli.py): the thread of play_sequence calls        *)
(* AudioPlayer.play for one file after the other and waits on is_playing;  *)
(* every play starts a playback thread, which starts a player process and  *)
(* waits for it.  File k of the sequence is played by thread k in process  *)
(* k.  The user presses no key while the sequence runs.                    *)
(***************************************************************************)

\* The file play_sequence plays after file k, 0 after the last one.
FileAfter(k) ==
    IF k = 1 THEN 2
    ELSE IF k = 2 /\ play_after THEN 3
    ELSE 0

InitQ ==
    /\ before_file \in BOOLEAN
    /\ play_after \in BOOLEAN
    /\ seq_file = 1
    /\ player_is_playing = FALSE
    /\ current_process = None
    /\ kpc = [k \in SequenceFiles |-> At("unstarted")]
    /\ proc = [k \in SequenceFiles |-> "none"]
    /\ qpc = "begin"
    /\ IdleT
    /\ IdleW
    /\ IdleG
    /\ IdleC
    /\ IdleV
    /\ IdleP
    /\ IdleR
    /\ IdleN
    /\ IdleD
    /\ IdleF
    /\ IdleM

\* play_sequence: "if before_file", else on to the TTS file.
SequenceBegin ==
    /\ qpc = "begin"
    /\ seq_file' = IF before_file THEN 1 ELSE 2
    /\ qpc' = "stop"
    /\ UNCHANGED <<before_file, play_after, player_is_playing, current_process,
                   kpc, proc>>
    /\ UNCHANGED notQ

\* play() calls stop(): "if self.current_process and
\* self.current_process.poll() is None".
PlayerStopTest ==
    /\ qpc = "stop"
    /\ qpc' = IF current_process # None /\ proc[current_process] = "running"
              THEN "terminate" ELSE "spawn"
    /\ UNCHANGED <<before_file, play_after, seq_file, player_is_playing,
                   current_process, kpc, proc>>
    /\ UNCHANGED notQ

\* stop(): self.current_process.terminate().
PlayerTerminate ==
    /\ qpc = "terminate"
    /\ proc' = IF proc[current_process] = "running"
               THEN [proc EXCEPT ![current_process] = "terminated"]
               ELSE proc
    /\ qpc' = "unmark"
    /\ UNCHANGED <<before_file, play_after, seq_file, player_is_playing,
                   current_process, kpc>>
    /\ UNCHANGED notQ

\* stop(): self.is_playing = False.
PlayerUnmark ==
    /\ qpc = "unmark"
    /\ player_is_playing' = FALSE
    /\ qpc' = "forget"
    /\ UNCHANGED <<before_file, play_after, seq_file, current_process, kpc, proc>>
    /\ UNCHANGED notQ

\* stop(): finally self.current_process = None.
PlayerForget ==
    /\ qpc = "forget"
    /\ current_process' = None
    /\ qpc' = "spawn"
    /\ UNCHANGED <<before_file, play_after, seq_file, player_is_playing, kpc, proc>>
    /\ UNCHANGED notQ

\* play(): self._playback_thread.start(), and play returns.
PlayerSpawn ==
    /\ qpc = "spawn"
    /\ kpc' = [kpc EXCEPT ![seq_file] = At("mark")]
    /\ qpc' = "wait"
    /\ UNCHANGED <<before_file, play_after, seq_file, player_is_playing,
                   current_process, proc>>
    /\ UNCHANGED notQ

\* play_sequence: "while self.audio_player.is_playing" is left, on to the
\* next file or to the end.
SequenceWaited ==
    /\ qpc = "wait"
    /\ ~player_is_playing
    /\ IF FileAfter(seq_file) # 0
       THEN seq_file' = FileAfter(seq_file) /\ qpc' = "stop"
       ELSE seq_file' = seq_file /\ qpc' = "done"
    /\ UNCHANGED <<before_file, play_after, player_is_playing, current_process,
                   kpc, proc>>
    /\ UNCHANGED notQ

\* _play_in_thread: self.is_playing = True.
PlaybackMark(k) ==
    /\ kpc[k].at = "mark"
    /\ player_is_playing' = TRUE
    /\ kpc' = [kpc EXCEPT ![k] = At("popen")]
    /\ UNCHANGED <<before_file, play_after, seq_file, qpc, current_process, proc>>
    /\ UNCHANGED notQ

\* _play_in_thread: self.current_process = subprocess.Popen(cmd).
PlaybackPopen(k) ==
    /\ kpc[k].at = "popen"
    /\ proc' = [proc EXCEPT ![k] = "running"]
    /\ current_process' = k
    /\ kpc' = [kpc EXCEPT ![k] = At("read")]
    /\ UNCHANGED <<before_file, play_after, seq_file, qpc, player_is_playing>>
    /\ UNCHANGED notQ

\* The player process comes to the end of its file.
ProcessExits(k) ==
    /\ proc[k] = "running"
    /\ proc' = [proc EXCEPT ![k] = "exited"]
    /\ UNCHANGED <<before_file, play_after, seq_file, qpc, player_is_playing,
                   current_process, kpc>>
    /\ UNCHANGED notQ

\* _play_in_thread: self.current_process.wait() is called on the process
\* that self.current_process is by now; on None the call raises, and the
\* handler sets self.is_playing = False.
PlaybackWait(k) ==
    /\ kpc[k].at = "read"
    /\ IF current_process = None
       THEN /\ player_is_playing' = FALSE
            /\ kpc' = [kpc EXCEPT ![k] = At("done")]
       ELSE /\ player_is_playing' = player_is_playing
            /\ kpc' = [kpc EXCEPT ![k] = [at |-> "wait", on |-> current_process]]
    /\ UNCHANGED <<before_file, play_after, seq_file, qpc, current_process, proc>>
    /\ UNCHANGED notQ

\* _play_in_thread: wait() has returned, self.is_playing = False.
PlaybackDone(k) ==
    /\ kpc[k].at = "wait"
    /\ proc[kpc[k].on] # "running"
    /\ player_is_playing' = FALSE
    /\ kpc' = [kpc EXCEPT ![k] = At("done")]
    /\ UNCHANGED <<before_file, play_after, seq_file, qpc, current_process, proc>>
    /\ UNCHANGED notQ

NextQ ==
    \/ SequenceBegin
    \/ PlayerStopTest
    \/ PlayerTerminate
    \/ PlayerUnmark
    \/ PlayerForget
    \/ PlayerSpawn
    \/ SequenceWaited
    \/ \E k \in SequenceFiles :
          \/ PlaybackMark(k)
          \/ PlaybackPopen(k)
          \/ PlaybackWait(k)
          \/ ProcessExits(k)
          \/ PlaybackDone(k)

SpecQ == InitQ /\ [][NextQ]_vars

\* C29: the files of the sequence are played one after the other: no two
\* player processes run at the same time, and the process of a file starts
\* only when the process of every file before it has come to its end.
C29_OneFileAtATime ==
    /\ Cardinality({k \in SequenceFiles : proc[k] = "running"}) <= 1
    /\ \A j, k \in SequenceFiles :
           (j < k /\ proc[k] # "none") => proc[j] \in {"none", "exited"}
====
